---- MODULE Spec2Model ----
(***************************************************************************)
(* Port ingestion pipeline of devport-crawler: the orchestrator            *)
(* (app/orchestrator_port.py), its stage runners and its completion        *)
(* webhook, as state machines.                                             *)
(*                                                                         *)
(* Python values are modelled as follows.  A dict is a TLA+ record whose   *)
(* DOMAIN is the set of keys present; d.get(k, default) is Get(d,k,default)*)
(* None is the record None.  An f-string "{stage}: {error}" is the record  *)
(* [stage |-> .., error |-> ..].  Error texts are drawn from small sets of *)
(* strings; one of them carries a credential.                              *)
(***************************************************************************)
EXTENDS Integers, Sequences, FiniteSets, TLC

\* ------------------------------------------------------------------ bounds
\* Longest requested stage list.
MaxStages == 2
\* Largest value given to the CRAWLER_WEBHOOK_MAX_RETRIES setting.
MaxRetriesSetting == 2
\* Largest number of tracked projects.
MaxProjects == 2
\* Largest number of consecutive invocations of a stage runner.
MaxRuns == 2
\* The metrics stage's cap on backfill days, scaled down.
BackfillCapDays == 2
\* Largest max_retries an API client is built with.
MaxClientRetries == 2
\* Largest number of matches of one category's keywords in a body.
MaxBodyMatches == 1
\* How many days beyond 121 the shorter star histories span.
MaxExtraSpan == 2
\* Largest number of distinct repositories among the payloads.
MaxRepos == 2

\* Keyword chunks a discovery searches.
MaxChunks == 2
\* Largest max_attempts a summarizer is configured with.
MaxSummaryAttempts == 3
\* Largest CRAWLER_WEBHOOK_MAX_RETRIES of the backoff schedule.
MaxBackoffRetries == 7

\* ------------------------------------------------------- program constants
\* getattr(settings, "CRAWLER_WEBHOOK_MAX_RETRIES", 3) or 3
DefaultWebhookMaxRetries == 3
\* response.status_code < 400 is a delivered webhook
WebhookErrorStatus == 400
\* _retry_delay_seconds: 0.1 s base and 2.0 s cap, in milliseconds
RETRY_BASE_MS == 100
RETRY_CAP_MS == 2000

STAGE_PROJECTS == "projects"
STAGE_EVENTS == "events"
STAGE_METRICS == "metrics"
ALL_STAGES == <<STAGE_PROJECTS, STAGE_EVENTS, STAGE_METRICS>>
DAILY_DEFAULT_STAGES == <<STAGE_EVENTS, STAGE_METRICS>>

\* ------------------------------------------------------------ Python values
None == [py_none |-> TRUE]
IsDict(v) == "py_none" \notin DOMAIN v
Get(d, k, default) == IF k \in DOMAIN d THEN d[k] ELSE default
Max(a, b) == IF a >= b THEN a ELSE b
Min(a, b) == IF a < b THEN a ELSE b
Range(s) == {s[i] : i \in DOMAIN s}

\* Error texts a stage, an exception or a transport failure can carry.
SecretText == "Authorization: Bearer ghp_xxx"
ErrTexts == {"boom", SecretText}

\* sanitize_for_log on a string: credential-shaped substrings are masked.
sanitize_for_log(s) ==
    IF s = SecretText THEN "Authorization: ***REDACTED***" ELSE s

\* ----------------------------------------------------------------- state
VARIABLES
    pc,            \* position of the run: idle, schema, stages, finalize,
                   \* webhook, post, exhausted, dispatched, done, raised
    mode,          \* "daily" | "backfill"
    stages,        \* the stage list _run iterates (after `stages or DEFAULT`)
    stage_idx,     \* 1-based index of the next entry of the for loop
    run_stats,     \* the run_stats dict
    call_order,    \* stage runners awaited so far, in order
    outcomes,      \* per processed entry: [stage, failed]
    schema,        \* what schema repair did: pending, ok, logged, raised
    wh_cfg,        \* the webhook settings read by the dispatch
    wh,            \* the dispatch's locals: attempt, posts, last_error,
                   \* result, and the log of what each POST did
    dispatches,    \* calls of _dispatch_completion_webhook so far
    projects,      \* the tracked projects _load_projects returns, in order
    proj_idx,      \* 1-based index of the next project of a stage's loop
    db,            \* the store: committed rows, the session's working rows,
                   \* the session's state, the next autoincrement id
    stats,         \* the stage's stats dict
    stage_result,  \* what the stage runner returned (None before)
    unit_log,      \* per processed project: [project, kind]
    faults,        \* storage and client-factory failures met so far
    payloads,      \* metrics stage: the payloads fetched so far
    upstream,      \* what the API answers for each project id
    run_no,        \* which consecutive invocation of the stage this is
    snapshots,     \* the committed rows after each finished invocation
    requested_metrics_days,  \* the stage runners' argument of that name
    checkpoints,   \* the stage runners' argument of that name
    client,        \* one fetch of the API client: its locals, the requests
                   \* made so far and the FetchResult it returned
    event,         \* one call of classify_event: how often each category's
                   \* patterns match the title and the body, and the result
    rollup,        \* one call of rollup_star_points: points, today,
                   \* recent_days and the rolled points
    selection,     \* the discovery of the projects stage: the baseline and
                   \* the discovered payloads, the target, what was selected
    overview,      \* runs of ProjectOverviewStage.run: the repository, the
                   \* collected sources, the stats and the summarizer calls
    summarizer,    \* one call of OverviewSummarizerService.summarize: the
                   \* LLM calls, the sleeps and what was returned
    wiki,          \* one call of calculate_hidden_sections: the snapshot,
                   \* the readiness metadata and the hidden sections
    discovery,     \* one call of _discover_repositories: the pages
                   \* requested so far and the payloads gathered
    fetches        \* the per-repository fetch loop of a stage: the
                   \* position of the loop and the state of each fetch

vars == <<pc, mode, stages, stage_idx, run_stats, call_order, outcomes,
          schema, wh_cfg, wh, dispatches, projects, proj_idx, db, stats,
          stage_result, unit_log, faults, payloads, upstream, run_no,
          snapshots, requested_metrics_days, checkpoints, client, event,
          rollup, selection, overview, summarizer, wiki, discovery,
          fetches>>

runVars == <<mode, stages, stage_idx, call_order, outcomes, schema>>

\* The state of a single stage runner, and the state of the run around it.
stageVars == <<projects, proj_idx, db, stats, stage_result, unit_log, faults,
               payloads, upstream, run_no, snapshots,
               requested_metrics_days, checkpoints>>
orchVars == <<stages, stage_idx, run_stats, call_order, outcomes, schema,
              wh_cfg, wh, dispatches>>
\* The state of the components a stage calls into.
compVars == <<client, event, rollup, selection>>
compVars2 == <<overview, summarizer, wiki, discovery, fetches>>

\* ================================================================ webhook
\* settings.CRAWLER_WEBHOOK_URL / _SECRET / _MAX_RETRIES.  " " is a blank
\* value that str.strip() empties; max_retries 0 stands for an unset or
\* falsy setting.
WebhookUrls == {"", " ", "https://hook"}
WebhookSecrets == {"", "s3cret", " s3cret"}
WebhookConfigs ==
    [url : WebhookUrls, secret : WebhookSecrets,
     max_retries : (-1) .. MaxRetriesSetting]

Strip(s) ==
    CASE s = " " -> ""
      [] s = " s3cret" -> "s3cret"
      [] OTHER -> s

\* Variant: only the endpoint is looked at.
webhook_configured_url_only(cfg) == Strip(cfg.url) # ""

\* lines 200-203: the dispatch is skipped unless both are set
webhook_configured(cfg) == Strip(cfg.url) # "" /\ Strip(cfg.secret) # ""

\* line 215: max(int(setting or 3), 1)
max_retries(cfg) ==
    Max(IF cfg.max_retries = 0 THEN DefaultWebhookMaxRetries
        ELSE cfg.max_retries, 1)

\* datetime.utcnow().isoformat() readings
Times == {"T0", "T1"}

WEBHOOK_SCOPE == "GIT_REPO"

\* Variant: completed_at is read from the clock at every build.
build_completion_webhook_payload_clock(rs, now) ==
    [job_id |-> [fmt |-> "port-{mode}-{started_at}",
                 mode |-> rs.mode, started_at |-> rs.started_at],
     scope |-> WEBHOOK_SCOPE,
     completed_at |-> now]

\* lines 186-196; `now` is what datetime.now(UTC) reads when a field of
\* run_stats is missing or empty
build_completion_webhook_payload(rs, now) ==
    LET started_at == IF Get(rs, "started_at", "") = "" THEN now
                      ELSE rs.started_at
        completed_at == IF Get(rs, "completed_at", "") = "" THEN now
                        ELSE rs.completed_at
        m == IF Get(rs, "mode", "") = "" THEN "daily" ELSE rs.mode
    IN [job_id |-> [fmt |-> "port-{mode}-{started_at}",
                    mode |-> m, started_at |-> started_at],
        scope |-> WEBHOOK_SCOPE,
        completed_at |-> completed_at]

\* json.dumps(payload, separators=(",", ":"), sort_keys=True): the members
\* in key order, whatever order the dict was built in
SortedKeys == <<"completed_at", "job_id", "scope", "signature">>
canonical_json(d) ==
    LET ks == SelectSeq(SortedKeys, LAMBDA k : k \in DOMAIN d)
    IN [i \in DOMAIN ks |-> <<ks[i], d[ks[i]]>>]

\* hmac.new(key, msg, sha256).hexdigest(), taken as collision-free
hmac_sha256(key, msg) == [alg |-> "hmac-sha256", key |-> key, msg |-> msg]

\* lines 205-213: the body every POST of one dispatch carries
signed_completion_payload(rs, secret, now) ==
    LET payload == build_completion_webhook_payload(rs, now)
    IN [signature |-> hmac_sha256(Strip(secret), canonical_json(payload))]
         @@ payload

\* What one POST can do: answer with a status, or raise.
Statuses == {200, 399, 400, 503}
ExcTexts == {"", "timeout", SecretText}
Responses ==
    [kind : {"status"}, code : Statuses, msg : {""}]
      \cup [kind : {"exc"}, code : {0}, msg : ExcTexts]

\* f"HTTP {response.status_code}"
HttpErrorText(code) ==
    CASE code = 400 -> "HTTP 400"
      [] code = 503 -> "HTTP 503"
      [] OTHER -> "HTTP"

\* The dispatch's locals before the retry loop (line 218).
DispatchStart ==
    [at |-> "post", attempt |-> 1, posts |-> 0, sleeps |-> 0,
     last_error |-> "", result |-> None, log |-> <<>>,
     signed_payload |-> None, sent |-> <<>>]

\* line 223: the response ends the dispatch
delivered(resp) == resp.kind = "status" /\ resp.code < WebhookErrorStatus

\* Variant: one attempt too many.
retry_follows_inclusive(attempt, maxr) == attempt <= maxr

\* line 234: another attempt follows
retry_follows(attempt, maxr) == attempt < maxr

\* lines 219-235: one iteration of the retry loop
webhook_post(w, maxr, resp) ==
    LET posted == [w EXCEPT !.posts = @ + 1, !.log = Append(@, resp),
                            !.sent = Append(@, w.signed_payload)] IN
    IF delivered(resp)
    THEN [posted EXCEPT
            !.at = "returned",
            !.result = [sent |-> TRUE, attempts |-> w.attempt,
                        status_code |-> resp.code]]
    ELSE LET err == IF resp.kind = "status" THEN HttpErrorText(resp.code)
                    ELSE resp.msg
         IN IF retry_follows(w.attempt, maxr)
            THEN [posted EXCEPT !.last_error = err, !.sleeps = @ + 1,
                                !.attempt = @ + 1]
            ELSE [posted EXCEPT !.last_error = err, !.at = "exhausted"]

\* Variant: the last error is returned as it came.
webhook_exhausted_raw(w, maxr) ==
    [w EXCEPT
       !.at = "returned",
       !.result = [sent |-> FALSE, attempts |-> maxr,
                   error |-> IF w.last_error = "" THEN "unknown error"
                             ELSE w.last_error]]

\* lines 237-245: the loop ran out
webhook_exhausted(w, maxr) ==
    [w EXCEPT
       !.at = "returned",
       !.result = [sent |-> FALSE, attempts |-> maxr,
                   error |-> sanitize_for_log(
                       IF w.last_error = "" THEN "unknown error"
                       ELSE w.last_error)]]

RECURSIVE dispatch_loop(_, _, _)
dispatch_loop(w, maxr, resps) ==
    IF w.at # "post" \/ resps = <<>> THEN w
    ELSE dispatch_loop(webhook_post(w, maxr, Head(resps)), maxr, Tail(resps))

\* lines 198-245 as a function of the settings and of what each POST does
dispatch_completion_webhook(cfg, resps) ==
    IF ~webhook_configured(cfg)
    THEN [DispatchStart EXCEPT !.at = "returned"]
    ELSE LET w == dispatch_loop(DispatchStart, max_retries(cfg), resps) IN
         IF w.at = "exhausted" THEN webhook_exhausted(w, max_retries(cfg))
         ELSE w


\* ---------------------------------------------------------- retry delays
\* random.uniform(0.75, 1.25), in percent: both ends and the middle
JitterPercents == {75, 100, 125}

\* Variant: the base doubles without a cap.
retry_base_ms_uncapped(attempt) ==
    RETRY_BASE_MS * 2 ^ Max(attempt - 1, 0)

\* line 250: min(0.1 * 2 ** max(attempt - 1, 0), 2.0), in milliseconds
retry_base_ms(attempt) ==
    Min(RETRY_BASE_MS * 2 ^ Max(attempt - 1, 0), RETRY_CAP_MS)

\* lines 249-252: base * jitter, in hundredths of a millisecond
retry_delay_seconds(attempt, jitter) == retry_base_ms(attempt) * jitter

\* The retry loop of lines 219-235 with its sleeps: `log` holds every POST
\* and every asyncio.sleep in the order they happen.
BackoffStart == [at |-> "post", attempt |-> 1, log |-> <<>>]

\* lines 219-235: one iteration; `ok` says whether the POST was answered
\* with a status below 400, `jitter` is what random.uniform returns
backoff_iteration(w, maxr, ok, jitter) ==
    LET post == [kind |-> "post", attempt |-> w.attempt, ok |-> ok,
                 base |-> 0, delay |-> 0]
        sleep == [kind |-> "sleep", attempt |-> w.attempt, ok |-> FALSE,
                  base |-> retry_base_ms(w.attempt),
                  delay |-> retry_delay_seconds(w.attempt, jitter)]
    IN IF ok
       THEN [w EXCEPT !.at = "returned", !.log = Append(@, post)]
       ELSE IF retry_follows(w.attempt, maxr)
            THEN [w EXCEPT !.attempt = @ + 1,
                           !.log = Append(Append(@, post), sleep)]
            ELSE [w EXCEPT !.at = "exhausted", !.log = Append(@, post)]

\* one iteration of the retry loop
backoff_attempt ==
    /\ pc = "backoff"
    /\ wh.at = "post"
    /\ \E ok \in BOOLEAN, jitter \in JitterPercents :
         wh' = backoff_iteration(wh, max_retries(wh_cfg), ok, jitter)
    /\ UNCHANGED <<pc, runVars, run_stats, wh_cfg, dispatches>>
    /\ UNCHANGED stageVars
    /\ UNCHANGED compVars
    /\ UNCHANGED compVars2

\* Every (settings, dispatch result) pair a run can see.
DispatchOutcomesOf(cfgs) ==
    UNION {{[cfg |-> c, w |-> dispatch_completion_webhook(c, r)] :
              r \in [1 .. max_retries(c) -> Responses]} : c \in cfgs}

\* =========================================================== orchestrator
StageNames == {STAGE_PROJECTS, STAGE_EVENTS, STAGE_METRICS, "bogus"}
StageLists == UNION {[1 .. n -> StageNames] : n \in 0 .. MaxStages}

\* lines 254-260: the mapping has a runner for the name
resolve_stage_runner(stage_name) ==
    stage_name \in {STAGE_PROJECTS, STAGE_EVENTS, STAGE_METRICS}

\* What an awaited stage runner can do (lines 145-150): return a dict with
\* success=True (without or with unit-level failures in its stats), return
\* success=False with an error, return a dict without a success key, return
\* None, or raise.  A unit-level failure leaves its reason, the text of the
\* unit's exception, in the stats (line 387).
StageOutcomes ==
    {[kind |-> "return", exc |-> "",
      result |-> [success |-> TRUE, stats |-> [failed |-> 0]]]}
    \cup {[kind |-> "return", exc |-> "",
           result |-> [success |-> TRUE,
                       stats |-> [failed |-> 1,
                                  failure_reasons |->
                                      <<[project |-> "owner/repo",
                                         reasons |-> <<e>>]>>]]] :
            e \in ErrTexts}
    \cup {[kind |-> "return", exc |-> "",
           result |-> [success |-> FALSE, error |-> e,
                       stats |-> [failed |-> 0]]] : e \in ErrTexts}
    \cup {[kind |-> "return", exc |-> "",
           result |-> [stats |-> [failed |-> 0]]],
          [kind |-> "return", exc |-> "", result |-> None]}
    \cup {[kind |-> "raise", exc |-> e, result |-> None] : e \in ErrTexts}

\* The {"success": False, "error": .., "stats": {}} entry of lines 132-136
\* and 168-172.
FailedEntry(err) == [success |-> FALSE, error |-> err, stats |-> <<>>]

SetStage(rs, stage_name, entry) ==
    [rs EXCEPT !.stages = (stage_name :> entry) @@ @]

AddError(rs, stage_name, err) ==
    [rs EXCEPT !.errors = Append(@, [stage |-> stage_name, error |-> err])]

\* Variant: a name without a runner is passed over.
record_unknown_stage_skipped(rs, stage_name) == rs

\* lines 130-142: no runner for the name
record_unknown_stage(rs, stage_name) ==
    AddError(SetStage(rs, stage_name, FailedEntry("Unknown stage")),
             stage_name, "unknown stage")

\* lines 162-173: the except branch
record_stage_exception(rs, stage_name, text) ==
    AddError(SetStage(rs, stage_name, FailedEntry(sanitize_for_log(text))),
             stage_name, sanitize_for_log(text))

\* lines 151-161: the runner returned `result`
record_stage_result(rs, stage_name, result) ==
    IF ~IsDict(result)
    THEN \* result.get raises AttributeError after the None was stored
         record_stage_exception(rs, stage_name, "no attribute get")
    ELSE LET clean == IF "error" \in DOMAIN result
                      THEN [result EXCEPT !.error = sanitize_for_log(@)]
                      ELSE result
             stored == SetStage(rs, stage_name, clean)
         IN IF ~Get(clean, "success", FALSE)
            THEN AddError(stored, stage_name,
                          sanitize_for_log(Get(clean, "error", "stage failed")))
            ELSE stored

\* lines 128-173: the body of the for loop for one entry
run_stage(rs, stage_name, out) ==
    IF ~resolve_stage_runner(stage_name)
    THEN record_unknown_stage(rs, stage_name)
    ELSE IF out.kind = "raise"
         THEN record_stage_exception(rs, stage_name, out.exc)
         ELSE record_stage_result(rs, stage_name, out.result)

\* Whether the processed entry counts as a failed stage execution.
StageFailed(stage_name, out) ==
    \/ ~resolve_stage_runner(stage_name)
    \/ out.kind = "raise"
    \/ ~IsDict(out.result)
    \/ ~Get(out.result, "success", FALSE)

\* Variant: the loop stops at the first recorded error.
stage_loop_aborts_on_error(idx, requested, rs) ==
    idx <= Len(requested) /\ rs.errors = <<>>

\* line 128: the for loop has entries left
stage_loop_continues(idx, requested, rs) == idx <= Len(requested)

\* line 176: all(stage.get("success", False) for stage in stages.values())
run_success(rs) ==
    \A n \in DOMAIN rs.stages : Get(rs.stages[n], "success", FALSE)

\* lines 503-524: schema repair against a session that behaves as `b`
StorageBehaviours ==
    [factory : {"ok", "raise"}, execute : {"ok", "raise"},
     commit : {"ok", "raise"}, rollback : {"ok", "raise"},
     close : {"ok", "raise"}]

ensure_runtime_schema_compatibility(b) ==
    IF b.factory = "raise" THEN "raised"
    ELSE LET body_failed == b.execute = "raise" \/ b.commit = "raise"
             handler_raised == body_failed /\ b.rollback = "raise"
         IN IF handler_raised \/ b.close = "raise" THEN "raised"
            ELSE IF body_failed THEN "logged" ELSE "ok"

\* lines 84 and 95: tuple(stages or DEFAULT)
selected_stages(requested, default) ==
    IF requested = <<>> THEN default ELSE requested

\* ---------------------------------------------------------------- actions
\* lines 78-85
run_daily_sync ==
    /\ pc = "idle"
    /\ \E requested \in StageLists :
         stages' = selected_stages(requested, DAILY_DEFAULT_STAGES)
    /\ mode' = "daily"
    /\ pc' = "schema"
    /\ UNCHANGED <<stage_idx, run_stats, call_order, outcomes, schema,
                   wh_cfg, wh, dispatches>>
    /\ UNCHANGED stageVars
    /\ UNCHANGED compVars
    /\ UNCHANGED compVars2

\* lines 87-102
run_backfill ==
    /\ pc = "idle"
    /\ \E requested \in StageLists :
         stages' = selected_stages(requested, ALL_STAGES)
    /\ mode' = "backfill"
    /\ pc' = "schema"
    /\ UNCHANGED <<stage_idx, run_stats, call_order, outcomes, schema,
                   wh_cfg, wh, dispatches>>
    /\ UNCHANGED stageVars
    /\ UNCHANGED compVars
    /\ UNCHANGED compVars2

\* lines 113-126: schema repair, then the run_stats dict is created
run_start ==
    /\ pc = "schema"
    /\ \E b \in StorageBehaviours :
         /\ schema' = ensure_runtime_schema_compatibility(b)
         /\ pc' = IF schema' = "raised" THEN "raised" ELSE "stages"
         /\ run_stats' =
              IF schema' = "raised" THEN run_stats
              ELSE [mode |-> mode, started_at |-> "T0",
                    stages_requested |-> stages, stages |-> <<>>,
                    errors |-> <<>>]
    /\ stage_idx' = 1
    /\ UNCHANGED <<mode, stages, call_order, outcomes, wh_cfg, wh,
                   dispatches>>
    /\ UNCHANGED stageVars
    /\ UNCHANGED compVars
    /\ UNCHANGED compVars2

\* lines 128-173: one entry of the stage list
run_stage_entry ==
    /\ pc = "stages"
    /\ stage_loop_continues(stage_idx, stages, run_stats)
    /\ LET stage_name == stages[stage_idx] IN
       \E out \in StageOutcomes :
         /\ run_stats' = run_stage(run_stats, stage_name, out)
         /\ call_order' = IF resolve_stage_runner(stage_name)
                          THEN Append(call_order, stage_name)
                          ELSE call_order
         /\ outcomes' = Append(outcomes,
                               [stage |-> stage_name,
                                failed |-> StageFailed(stage_name, out)])
    /\ stage_idx' = stage_idx + 1
    /\ UNCHANGED <<pc, mode, stages, schema, wh_cfg, wh, dispatches>>
    /\ UNCHANGED stageVars
    /\ UNCHANGED compVars
    /\ UNCHANGED compVars2

\* lines 175-176: the loop is over
run_finalize ==
    /\ pc = "stages"
    /\ ~stage_loop_continues(stage_idx, stages, run_stats)
    /\ run_stats' = [completed_at |-> "T1", success |-> run_success(run_stats)]
                      @@ run_stats
    /\ pc' = "webhook"
    /\ UNCHANGED <<runVars, wh_cfg, wh, dispatches>>
    /\ UNCHANGED stageVars
    /\ UNCHANGED compVars
    /\ UNCHANGED compVars2

\* ------------------------------------------------------- webhook dispatch
\* The settings a whole run is checked with: every way of leaving the
\* endpoint or the secret unset, with one attempt and with one retry.
RunWebhookConfigs ==
    {c \in WebhookConfigs :
       c.max_retries \in {1, 2} /\ c.secret \in {"", "s3cret"}}
RunDispatchOutcomes == DispatchOutcomesOf(RunWebhookConfigs)

\* line 177 within a run: the whole dispatch
run_dispatch_webhook ==
    /\ pc = "webhook"
    /\ \E o \in RunDispatchOutcomes, now \in Times :
         /\ wh_cfg' = o.cfg
         /\ wh' = IF webhook_configured(o.cfg)
                  THEN LET body == signed_completion_payload(
                                       run_stats, o.cfg.secret, now)
                       IN [o.w EXCEPT !.signed_payload = body,
                                      !.sent = [i \in DOMAIN @ |-> body]]
                  ELSE o.w
    /\ pc' = "dispatched"
    /\ dispatches' = dispatches + 1
    /\ UNCHANGED <<runVars, run_stats>>
    /\ UNCHANGED stageVars
    /\ UNCHANGED compVars
    /\ UNCHANGED compVars2

\* lines 198-218: the settings are read; the dispatch is skipped or starts
dispatch_begin ==
    /\ pc = "webhook"
    /\ \E cfg \in WebhookConfigs, now \in Times :
         /\ wh_cfg' = cfg
         /\ IF webhook_configured(cfg)
            THEN /\ wh' = [DispatchStart EXCEPT
                             !.signed_payload = signed_completion_payload(
                                 run_stats, cfg.secret, now)]
                 /\ pc' = "post"
            ELSE wh' = [DispatchStart EXCEPT !.at = "returned"]
                 /\ pc' = "dispatched"
    /\ dispatches' = dispatches + 1
    /\ UNCHANGED <<runVars, run_stats>>
    /\ UNCHANGED stageVars
    /\ UNCHANGED compVars
    /\ UNCHANGED compVars2

\* lines 219-235: one POST and what follows it
dispatch_post ==
    /\ pc = "post"
    /\ \E resp \in Responses :
         wh' = webhook_post(wh, max_retries(wh_cfg), resp)
    /\ pc' = CASE wh'.at = "post" -> "post"
               [] wh'.at = "exhausted" -> "exhausted"
               [] OTHER -> "dispatched"
    /\ UNCHANGED <<runVars, run_stats, wh_cfg, dispatches>>
    /\ UNCHANGED stageVars
    /\ UNCHANGED compVars
    /\ UNCHANGED compVars2

\* lines 237-245
dispatch_exhausted ==
    /\ pc = "exhausted"
    /\ wh' = webhook_exhausted(wh, max_retries(wh_cfg))
    /\ pc' = "dispatched"
    /\ UNCHANGED <<runVars, run_stats, wh_cfg, dispatches>>
    /\ UNCHANGED stageVars
    /\ UNCHANGED compVars
    /\ UNCHANGED compVars2

\* lines 178-184: the webhook entry, then the RunStats goes to the caller
run_return ==
    /\ pc = "dispatched"
    /\ run_stats' = IF wh.result # None
                    THEN [webhook |-> wh.result] @@ run_stats
                    ELSE run_stats
    /\ pc' = "done"
    /\ UNCHANGED <<runVars, wh_cfg, wh, dispatches>>
    /\ UNCHANGED stageVars
    /\ UNCHANGED compVars
    /\ UNCHANGED compVars2


\* ========================================================== stage runners
\* Tracked projects: rows of the projects table.  "noslash" is a full_name
\* that str.split("/", 1) cannot unpack into owner and repo.
ProjectIds == 1 .. MaxProjects
FullNames == {"owner/repo", "noslash"}
ProjectRows == [id : ProjectIds, full_name : FullNames, stars : {7}]
TrackedLists ==
    UNION {{l \in [1 .. n -> ProjectRows] :
              \A i, j \in 1 .. n : i # j => l[i].id # l[j].id} :
           n \in 0 .. MaxProjects}

\* The store as a session sees it: what is committed, and the session's
\* working copy (committed rows plus its uncommitted changes).
EmptyDb == [committed |-> {}, working |-> {}, session |-> "none"]
db_open(d) == [d EXCEPT !.session = "open", !.working = d.committed]
db_commit(d) == [d EXCEPT !.committed = d.working]
db_rollback(d) == [d EXCEPT !.working = d.committed]
db_close(d) == [d EXCEPT !.session = "closed", !.working = d.committed]

\* The checkpoints dict a caller of run_backfill supplies (lines 92, 147):
\* none, or a cursor for the first tracked project.
CheckpointInputs ==
    {<<>>,
     1 :> [next_page |-> 2, reached_cap |-> FALSE, complete |-> TRUE]}

\* ----------------------------------------------------------- events stage
\* What processing one project can do: ingest_project returns after writing
\* events ("ok") or after skipping the update ("skip"), or raises after
\* writing part of its rows ("raise_partial") or nothing ("raise_clean");
\* the commit after a successful ingest can fail, and so can the rollback
\* in the except branch.
EventBehaviours ==
    {"ok", "skip", "raise_partial", "raise_clean", "commit_fails",
     "raise_rollback_fails", "commit_rollback_fails"}
IngestRaises(b) == b \in {"raise_partial", "raise_clean", "raise_rollback_fails"}
CommitRaises(b) == b \in {"commit_fails", "commit_rollback_fails"}
RollbackRaises(b) == b \in {"raise_rollback_fails", "commit_rollback_fails"}

EventRow(p) == [table |-> "project_events", project_id |-> p.id]

\* EventsStage.ingest_project: the rows it adds to the session
ingest_project(d, p, b) ==
    IF b \in {"ok", "commit_fails", "commit_rollback_fails", "raise_partial",
              "raise_rollback_fails"}
    THEN [d EXCEPT !.working = @ \cup {EventRow(p)}]
    ELSE d

\* lines 366-372
events_stats(tracked) ==
    [projects |-> Len(tracked), updated_count |-> 0,
     skipped_event_update |-> 0, failed_projects |-> 0,
     failure_reasons |-> <<>>]

\* lines 384-391: the except branch of one project
\* (line 387: the reason is str(exc) as it came)
events_unit_failed(d, st, p, b, exc) ==
    IF RollbackRaises(b)
    THEN [db |-> d, stats |-> st, raised |-> TRUE]
    ELSE [db |-> db_rollback(d),
          stats |-> [st EXCEPT
                       !.failed_projects = @ + 1,
                       !.failure_reasons =
                           Append(@, [project |-> p.full_name,
                                      reasons |-> <<exc>>])],
          raised |-> FALSE]

\* Variant: the per-project commit is left out.
events_ingest_one_without_commit(d, st, p, b, exc) ==
    LET d1 == ingest_project(d, p, b) IN
    IF IngestRaises(b) THEN events_unit_failed(d1, st, p, b, exc)
    ELSE [db |-> d1,
          stats |-> [st EXCEPT !.updated_count =
                                   @ + (IF b = "skip" THEN 0 ELSE 1)],
          raised |-> FALSE]

\* lines 376-391: the loop body for one project
events_ingest_one(d, st, p, b, exc) ==
    LET d1 == ingest_project(d, p, b) IN
    IF IngestRaises(b) THEN events_unit_failed(d1, st, p, b, exc)
    ELSE LET st1 == [st EXCEPT
                       !.updated_count = @ + (IF b = "skip" THEN 0 ELSE 1),
                       !.skipped_event_update =
                           @ + (IF b = "skip" THEN 1 ELSE 0),
                       !.failure_reasons =
                           IF b = "skip"
                           THEN Append(@, [project |-> p.full_name,
                                           reasons |-> <<"sources failed">>])
                           ELSE @]
         IN IF CommitRaises(b) THEN events_unit_failed(d1, st1, p, b, exc)
            ELSE [db |-> db_commit(d1), stats |-> st1, raised |-> FALSE]

\* How a stage runner starts (lines 360-364, 416-420) and what the client
\* factory does (lines 397, 474).
BeginBehaviours ==
    {"ok", "factory_raises", "query_raises", "client_raises"}
OkRaise == {"ok", "raise"}

\* Variant: deleting the argument empties the caller's dict.
del_checkpoints_clears(cp) == <<>>

\* lines 271, 359, 415: `del checkpoints` unbinds the runner's local name;
\* the dict the caller passed is left as it is
del_checkpoints(cp) == cp

\* lines 359-372: the checkpoints argument is deleted unread; the session,
\* the tracked projects, the stats
events_begin ==
    /\ pc = "events_begin"
    /\ \E b \in BeginBehaviours, c \in OkRaise :
         CASE b = "factory_raises" ->
                /\ pc' = "stage_raised"
                /\ faults' = faults \cup {"factory"}
                /\ UNCHANGED <<db, stats, stage_result>>
           [] b = "query_raises" ->
                /\ pc' = "stage_raised"
                /\ faults' = faults \cup {"query"}
                /\ db' = db_open(db)
                /\ UNCHANGED <<stats, stage_result>>
           [] projects = <<>> /\ b \in {"ok", "client_raises"} ->
                /\ db' = db_close(db_open(db))
                /\ pc' = IF c = "raise" THEN "stage_raised"
                         ELSE "stage_returned"
                /\ faults' = IF c = "raise" THEN faults \cup {"close"}
                             ELSE faults
                /\ stage_result' =
                     IF c = "raise" THEN stage_result
                     ELSE [success |-> TRUE, skipped |-> TRUE,
                           stats |-> [reason |-> "No tracked projects found"]]
                /\ UNCHANGED stats
           [] OTHER ->
                /\ db' = db_open(db)
                /\ stats' = events_stats(projects)
                /\ pc' = IF b = "client_raises" THEN "events_failed"
                         ELSE "events_loop"
                /\ faults' = IF b = "client_raises"
                             THEN faults \cup {"client"} ELSE faults
                /\ UNCHANGED stage_result
    /\ proj_idx' = 1
    /\ checkpoints' = del_checkpoints(checkpoints)
    /\ UNCHANGED <<mode, requested_metrics_days, projects, unit_log,
                   payloads, upstream, run_no, snapshots>>
    /\ UNCHANGED orchVars
    /\ UNCHANGED compVars
    /\ UNCHANGED compVars2

\* lines 375-391: one project of the loop
events_project ==
    /\ pc = "events_loop"
    /\ proj_idx <= Len(projects)
    /\ \E b \in EventBehaviours, exc \in ErrTexts :
         LET r == events_ingest_one(db, stats, projects[proj_idx], b, exc) IN
         /\ IngestRaises(b) \/ CommitRaises(b) \/ exc = "boom"
         /\ db' = r.db
         /\ stats' = r.stats
         /\ pc' = IF r.raised THEN "events_failed" ELSE "events_loop"
         /\ unit_log' = Append(unit_log,
                               [project |-> projects[proj_idx].id,
                                kind |-> b])
         /\ faults' = faults
                        \cup (IF CommitRaises(b) THEN {"commit"} ELSE {})
                        \cup (IF RollbackRaises(b) THEN {"rollback"} ELSE {})
    /\ proj_idx' = proj_idx + 1
    /\ UNCHANGED <<mode, requested_metrics_days, checkpoints, projects, stage_result, payloads, upstream, run_no,
                   snapshots>>
    /\ UNCHANGED orchVars
    /\ UNCHANGED compVars
    /\ UNCHANGED compVars2

\* lines 399-403: the result, and the session is closed
events_end ==
    /\ \/ pc = "events_loop" /\ proj_idx > Len(projects)
       \/ pc = "events_failed"
    /\ \E c \in OkRaise :
         /\ db' = db_close(db)
         /\ pc' = IF c = "raise" THEN "stage_raised" ELSE "stage_returned"
         /\ faults' = IF c = "raise" THEN faults \cup {"close"} ELSE faults
         /\ stage_result' =
              IF c = "raise" THEN stage_result
              ELSE IF pc = "events_failed"
                   THEN [success |-> FALSE, error |-> "boom", stats |-> stats]
                   ELSE [success |-> TRUE, stats |-> stats]
         /\ snapshots' = Append(snapshots,
                                [committed |-> db'.committed,
                                 success |-> (c = "ok"
                                              /\ pc # "events_failed")])
    /\ UNCHANGED <<mode, requested_metrics_days, checkpoints, projects, proj_idx, stats, unit_log, payloads,
                   upstream, run_no>>
    /\ UNCHANGED orchVars
    /\ UNCHANGED compVars
    /\ UNCHANGED compVars2

\* ---------------------------------------------------------- metrics stage
\* What get_repo answers for a project: a FetchResult that is OK with a
\* payload, UNCHANGED without one, or FAILED; or the call raises.
FetchResults ==
    {[state |-> "OK", stargazers_count |-> n] : n \in {0, 5}}
    \cup {[state |-> st, stargazers_count |-> 0] :
            st \in {"UNCHANGED", "FAILED", "raise"}}

\* lines 498-501: owner and repo, or <<>> when the unpacking raises
split_repo(full_name) ==
    IF full_name = "owner/repo" THEN <<"owner", "repo">> ELSE <<>>

\* a or b, on integers
Or(a, b) == IF a # 0 THEN a ELSE b

\* lines 451-460: the payload of one fetched project
metrics_payload(p, resp) ==
    [project_id |-> p.id,
     stargazers_count |-> Or(resp.stargazers_count, Or(p.stars, 0))]

\* lines 441-460: one project of _fetch_payloads: "raise", "failed", or "ok"
metrics_fetch_one(p, resp) ==
    IF split_repo(p.full_name) = <<>> \/ resp.state = "raise" THEN "raise"
    ELSE IF resp.state = "FAILED" THEN "failed"
    ELSE "ok"

\* MetricsStage.capped_backfill_days / backfill_dates: the snapshot dates of
\* a backfill, as days before today, newest first
capped_backfill_days(requested) ==
    IF requested > BackfillCapDays THEN BackfillCapDays ELSE requested
backfill_dates(requested) ==
    [i \in 1 .. capped_backfill_days(requested) |-> i - 1]

\* lines 421-435: the dates and the cap reasons of a run
metrics_dates(m, requested) ==
    IF m = "backfill" THEN backfill_dates(requested) ELSE <<0>>

\* Variant: the cap is applied without a record of it.
metrics_cap_reasons_silent(m, requested) == <<>>

metrics_cap_reasons(m, requested) ==
    IF m = "backfill" /\ capped_backfill_days(requested) < requested
    THEN <<[scope |-> "metrics", reason |-> capped_backfill_days(requested)]>>
    ELSE <<>>

\* lines 463-471
metrics_stats(tracked, m, requested) ==
    [projects |-> Len(tracked), dates |-> metrics_dates(m, requested),
     processed |-> 0, created |-> 0, updated |-> 0, failed |-> 0,
     cap_reasons |-> metrics_cap_reasons(m, requested)]

MetricRows(rows) == {r \in rows : r.table = "project_metrics_daily"}
NextId(rows) ==
    1 + Cardinality(MetricRows(rows))

\* UniqueConstraint("project_id", "date", name="uk_project_metrics_daily"):
\* a flush or commit of rows breaking it raises IntegrityError
uk_project_metrics_daily(rows) ==
    \A r1, r2 \in MetricRows(rows) :
       (r1.project_id = r2.project_id /\ r1.date = r2.date) => r1 = r2

\* Variant: every payload is inserted as a new row.
RECURSIVE ingest_daily_metrics_insert_only(_, _, _, _)
ingest_daily_metrics_insert_only(rows, pls, snapshot_date, res) ==
    IF pls = <<>> THEN [rows |-> rows, result |-> res]
    ELSE ingest_daily_metrics_insert_only(
             rows \cup {[table |-> "project_metrics_daily",
                         id |-> NextId(rows),
                         project_id |-> Head(pls).project_id,
                         date |-> snapshot_date,
                         stars |-> Head(pls).stargazers_count]},
             Tail(pls), snapshot_date,
             [res EXCEPT !.processed = @ + 1, !.created = @ + 1])

\* MetricsStage.ingest_daily_metrics: one row per (project_id, date), updated
\* when it exists and inserted when it does not
RECURSIVE ingest_daily_metrics(_, _, _, _)
ingest_daily_metrics(rows, pls, snapshot_date, res) ==
    IF pls = <<>> THEN [rows |-> rows, result |-> res]
    ELSE LET pl == Head(pls)
             existing == {r \in MetricRows(rows) :
                            r.project_id = pl.project_id
                            /\ r.date = snapshot_date}
         IN IF existing # {}
            THEN ingest_daily_metrics(
                     (rows \ existing)
                       \cup {[r EXCEPT !.stars = pl.stargazers_count] :
                               r \in existing},
                     Tail(pls), snapshot_date,
                     [res EXCEPT !.processed = @ + 1, !.updated = @ + 1])
            ELSE ingest_daily_metrics(
                     rows \cup {[table |-> "project_metrics_daily",
                                 id |-> NextId(rows),
                                 project_id |-> pl.project_id,
                                 date |-> snapshot_date,
                                 stars |-> pl.stargazers_count]},
                     Tail(pls), snapshot_date,
                     [res EXCEPT !.processed = @ + 1, !.created = @ + 1])

\* lines 477-482: the loop over the dates
RECURSIVE metrics_ingest_dates(_, _, _, _)
metrics_ingest_dates(d, st, pls, dates) ==
    IF dates = <<>> THEN [db |-> d, stats |-> st]
    ELSE LET r == ingest_daily_metrics(
                      d.working, pls, Head(dates),
                      [processed |-> 0, created |-> 0, updated |-> 0,
                       failed |-> 0])
         IN metrics_ingest_dates(
                [d EXCEPT !.working = r.rows],
                [st EXCEPT !.processed = @ + r.result.processed,
                           !.created = @ + r.result.created,
                           !.updated = @ + r.result.updated,
                           !.failed = @ + r.result.failed],
                pls, Tail(dates))

\* lines 416-435 and 463-474: the session, the projects, the dates, the
\* stats, the client
metrics_begin ==
    /\ pc = "metrics_begin"
    /\ \E b \in BeginBehaviours, c \in OkRaise :
         CASE b = "factory_raises" ->
                /\ pc' = "stage_raised"
                /\ faults' = faults \cup {"factory"}
                /\ snapshots' = Append(snapshots,
                                       [committed |-> db.committed,
                                        success |-> FALSE])
                /\ UNCHANGED <<db, stats, stage_result>>
           [] b = "query_raises" ->
                /\ pc' = "stage_raised"
                /\ faults' = faults \cup {"query"}
                /\ db' = db_open(db)
                /\ snapshots' = Append(snapshots,
                                       [committed |-> db.committed,
                                        success |-> FALSE])
                /\ UNCHANGED <<stats, stage_result>>
           [] projects = <<>> /\ b \in {"ok", "client_raises"} ->
                /\ db' = db_close(db_open(db))
                /\ pc' = IF c = "raise" THEN "stage_raised"
                         ELSE "stage_returned"
                /\ faults' = IF c = "raise" THEN faults \cup {"close"}
                             ELSE faults
                /\ stage_result' =
                     IF c = "raise" THEN stage_result
                     ELSE [success |-> TRUE, skipped |-> TRUE,
                           stats |-> [reason |-> "No tracked projects found"]]
                /\ snapshots' = Append(snapshots,
                                       [committed |-> db.committed,
                                        success |-> c = "ok"])
                /\ UNCHANGED stats
           [] OTHER ->
                /\ db' = db_open(db)
                /\ stats' = metrics_stats(projects, mode,
                                          requested_metrics_days)
                /\ pc' = IF b = "client_raises" THEN "metrics_failed"
                         ELSE "metrics_fetch"
                /\ faults' = IF b = "client_raises"
                             THEN faults \cup {"client"} ELSE faults
                /\ UNCHANGED <<stage_result, snapshots>>
    /\ proj_idx' = 1
    /\ UNCHANGED <<mode, requested_metrics_days, checkpoints, projects, unit_log, payloads, upstream, run_no>>
    /\ UNCHANGED orchVars
    /\ UNCHANGED compVars
    /\ UNCHANGED compVars2

\* lines 440-460: one project of _fetch_payloads
metrics_fetch ==
    /\ pc = "metrics_fetch"
    /\ proj_idx <= Len(projects)
    /\ LET p == projects[proj_idx]
           kind == metrics_fetch_one(p, upstream[p.id])
       IN /\ unit_log' = Append(unit_log, [project |-> p.id, kind |-> kind])
          /\ payloads' = IF kind = "ok"
                         THEN Append(payloads,
                                     metrics_payload(p, upstream[p.id]))
                         ELSE payloads
          /\ pc' = IF kind = "raise" THEN "metrics_failed" ELSE "metrics_fetch"
    /\ proj_idx' = proj_idx + 1
    /\ UNCHANGED <<mode, requested_metrics_days, checkpoints, projects, db, stats, stage_result, faults, upstream,
                   run_no, snapshots>>
    /\ UNCHANGED orchVars
    /\ UNCHANGED compVars
    /\ UNCHANGED compVars2

\* What the end of the stage can meet: nothing, ingest_daily_metrics
\* raising for the k-th date after the dates before it were ingested, the
\* commit raising, the rollback of the except branch raising too, or the
\* close of the finally branch raising.
FinishBehaviours ==
    {"ok", "ingest_raises", "commit_raises", "rollback_raises",
     "close_raises"}

\* lines 476-484 and 485-489: the fetched payloads are ingested for every
\* date and committed; on an exception the session is rolled back
metrics_finish ==
    /\ pc = "metrics_fetch"
    /\ proj_idx > Len(projects)
    /\ \E b \in FinishBehaviours, k \in DOMAIN stats.dates :
         LET failed_fetches ==
                 Cardinality({i \in DOMAIN unit_log :
                                unit_log[i].kind = "failed"})
             st1 == [stats EXCEPT !.failed = @ + failed_fetches]
             ingested == b \in {"ok", "commit_raises", "close_raises"}
             done == metrics_ingest_dates(
                         db, st1, payloads,
                         IF ingested THEN stats.dates
                         ELSE SubSeq(stats.dates, 1, k - 1))
             st2 == done.stats
             d2 == done.db
             committed == /\ b \in {"ok", "close_raises"}
                          /\ uk_project_metrics_daily(d2.working)
         IN /\ b = "ingest_raises" \/ k = 1
            /\ stats' = st2
            /\ db' = db_close(IF committed THEN db_commit(d2) ELSE d2)
            /\ pc' = IF b \in {"rollback_raises", "close_raises"}
                     THEN "stage_raised" ELSE "stage_returned"
            /\ stage_result' =
                 IF b \in {"rollback_raises", "close_raises"}
                 THEN stage_result
                 ELSE IF committed THEN [success |-> TRUE, stats |-> st2]
                 ELSE [success |-> FALSE, error |-> "boom", stats |-> st2]
            /\ faults' = IF b = "ok" THEN faults ELSE faults \cup {b}
            /\ snapshots' = Append(snapshots,
                                   [committed |-> db'.committed,
                                    success |-> (b = "ok" /\ committed)])
    /\ UNCHANGED <<mode, requested_metrics_days, checkpoints, projects, proj_idx, unit_log, payloads, upstream,
                   run_no>>
    /\ UNCHANGED orchVars
    /\ UNCHANGED compVars
    /\ UNCHANGED compVars2

\* lines 485-489 after the client factory or a fetch raised
metrics_abort ==
    /\ pc = "metrics_failed"
    /\ \E rb \in OkRaise, c \in OkRaise :
         /\ db' = db_close(db)
         /\ pc' = IF rb = "raise" \/ c = "raise" THEN "stage_raised"
                  ELSE "stage_returned"
         /\ stage_result' =
              IF rb = "raise" \/ c = "raise" THEN stage_result
              ELSE [success |-> FALSE, error |-> "boom", stats |-> stats]
         /\ faults' = faults
                        \cup (IF rb = "raise" THEN {"rollback_raises"} ELSE {})
                        \cup (IF c = "raise" THEN {"close_raises"} ELSE {})
         /\ snapshots' = Append(snapshots,
                                [committed |-> db'.committed,
                                 success |-> FALSE])
    /\ UNCHANGED <<mode, requested_metrics_days, checkpoints, projects, proj_idx, stats, unit_log, payloads,
                   upstream, run_no>>
    /\ UNCHANGED orchVars
    /\ UNCHANGED compVars
    /\ UNCHANGED compVars2

\* The caller invokes the stage again on the same store and upstream.
metrics_rerun ==
    /\ pc \in {"stage_returned", "stage_raised"}
    /\ run_no < MaxRuns
    /\ run_no' = run_no + 1
    /\ pc' = "metrics_begin"
    /\ proj_idx' = 1
    /\ stats' = None
    /\ stage_result' = None
    /\ unit_log' = <<>>
    /\ payloads' = <<>>
    /\ faults' = {}
    /\ UNCHANGED <<mode, requested_metrics_days, checkpoints, projects, db, upstream, snapshots>>
    /\ UNCHANGED orchVars
    /\ UNCHANGED compVars
    /\ UNCHANGED compVars2

\* ============================================================ API client
\* GitHubPortClient.fetch: one resource, at most max_retries requests.
\* What one request can meet: a 200 with an object, a non-empty or an empty
\* collection; a 304; a 429 with or without Retry-After; a 403 with or
\* without x-ratelimit-reset; a 500; or a transport failure.
ClientEtags == {"e1", "e2"}
ClientResponses ==
    [code : {200}, body : {"object", "items", "empty"}, etag : {"e2"},
     limit_header : {FALSE}, msg : {""}]
    \cup [code : {304}, body : {"none"}, etag : ClientEtags,
          limit_header : {FALSE}, msg : {""}]
    \cup [code : {403, 429}, body : {"none"}, etag : {""},
          limit_header : BOOLEAN, msg : {""}]
    \cup [code : {500}, body : {"none"}, etag : {""},
          limit_header : {FALSE}, msg : {""}]
    \cup [code : {0}, body : {"none"}, etag : {""},
          limit_header : {FALSE}, msg : {"timeout", SecretText}]

\* code 0 stands for a request that raised instead of answering
transport_failure(resp) == resp.code = 0

\* 429 with Retry-After, or 403 with x-ratelimit-reset
rate_limit_signature(resp) == resp.code \in {403, 429} /\ resp.limit_header

\* FetchResult(state, data, etag, status_code, error); "" and 0 stand for
\* None in the string and integer fields
FetchResult(state, data, etag, status_code, error) ==
    [state |-> state, data |-> data, etag |-> etag,
     status_code |-> status_code, error |-> error]

\* contracts.py lines 32-46
is_ok(r) == r.state = "OK"
is_unchanged(r) == r.state = "UNCHANGED"

\* Variant: an OK result also counts as empty.
is_empty_or_ok(r) == r.state \in {"EMPTY", "OK"}

is_empty(r) == r.state = "EMPTY"
is_failed(r) == r.state = "FAILED"

ClientIdle ==
    [at |-> "idle", max_retries |-> 1, etag |-> "", attempt |-> 1,
     log |-> <<>>, waits |-> <<>>, last_status |-> 0, last_error |-> "",
     result |-> None]

\* Variant: the request's etag is handed back.
client_unchanged_request_etag(c, resp) ==
    FetchResult("UNCHANGED", "none", c.etag, 304, "")

\* a 304: UNCHANGED, no payload, the etag of the response headers
client_unchanged(c, resp) ==
    FetchResult("UNCHANGED", "none", resp.etag, 304, "")

\* a 200: EMPTY with the empty collection, or OK with the payload
client_success(resp) ==
    IF resp.body = "empty"
    THEN FetchResult("EMPTY", "empty", resp.etag, 200, "")
    ELSE FetchResult("OK", resp.body, resp.etag, 200, "")

\* Variant: one request too many.
client_retry_follows_inclusive(attempt, maxr) == attempt <= maxr

\* another attempt follows a failed one
client_retry_follows(attempt, maxr) == attempt < maxr

\* f"HTTP {status}" or the text of the transport failure
ClientErrorText(resp) ==
    IF transport_failure(resp) THEN resp.msg
    ELSE CASE resp.code = 403 -> "HTTP 403"
           [] resp.code = 429 -> "HTTP 429"
           [] OTHER -> "HTTP 500"

\* Variant: the status of the first failed response is reported.
client_failed_first_status(c) ==
    FetchResult("FAILED", "none", "", c.log[1].code,
                sanitize_for_log(c.last_error))

\* retries exhausted: FAILED with the last status and a sanitized error
client_failed(c) ==
    FetchResult("FAILED", "none", "", c.last_status,
                sanitize_for_log(c.last_error))

\* One request of the fetch and what the client does with its answer.
client_request(c, resp) ==
    LET sent == [c EXCEPT !.log = Append(@, resp)] IN
    CASE resp.code = 200 ->
           [sent EXCEPT !.at = "returned", !.result = client_success(resp)]
      [] resp.code = 304 ->
           [sent EXCEPT !.at = "returned",
                        !.result = client_unchanged(c, resp)]
      [] OTHER ->
           LET failed == [sent EXCEPT !.last_status = resp.code,
                                      !.last_error = ClientErrorText(resp)]
           IN IF client_retry_follows(c.attempt, c.max_retries)
              THEN [failed EXCEPT
                      !.attempt = @ + 1,
                      !.waits = Append(@, IF rate_limit_signature(resp)
                                          THEN "rate_limit" ELSE "backoff")]
              ELSE [failed EXCEPT !.at = "returned",
                                  !.result = client_failed(failed)]

\* get_repo / list_releases is called, with or without a stored etag
client_fetch ==
    /\ pc = "client"
    /\ client.at = "idle"
    /\ \E maxr \in 1 .. MaxClientRetries, etag \in {""} \cup ClientEtags :
         client' = [ClientIdle EXCEPT !.at = "request",
                                      !.max_retries = maxr, !.etag = etag]
    /\ UNCHANGED <<pc, mode, event, rollup, selection>>
    /\ UNCHANGED orchVars
    /\ UNCHANGED stageVars
    /\ UNCHANGED compVars2

\* one request goes out and is answered
client_attempt ==
    /\ pc = "client"
    /\ client.at = "request"
    /\ \E resp \in ClientResponses : client' = client_request(client, resp)
    /\ UNCHANGED <<pc, mode, event, rollup, selection>>
    /\ UNCHANGED orchVars
    /\ UNCHANGED stageVars
    /\ UNCHANGED compVars2

\* ======================================================= event classifier
\* event_classifier.py.  The five scored categories, in _PRIORITY order.
ScoredTypes == <<"security", "breaking", "feature", "fix", "perf">>
MISC == "misc"
PRIORITY(t) == (CHOOSE i \in DOMAIN ScoredTypes : ScoredTypes[i] = t) - 1
ScoredSet == Range(ScoredTypes)

\* What _count_matches finds for one category: matches of its keywords in
\* the title and in the body, and of its section hint in the body.
MatchCounts ==
    [title : 0 .. 1, body : 0 .. MaxBodyMatches, section : 0 .. 1]
ClassifierInputs == [ScoredSet -> MatchCounts]

\* lines 95-101
scores(m) ==
    [t \in ScoredSet |-> m[t].title * 2 + m[t].body + m[t].section * 2]

\* Variant: ties go to the later category of _PRIORITY.
ranks_before_late_ties(sc, a, b) ==
    sc[a] > sc[b] \/ (sc[a] = sc[b] /\ PRIORITY(a) > PRIORITY(b))

\* line 103: descending score, ties by ascending priority
ranks_before(sc, a, b) ==
    sc[a] > sc[b] \/ (sc[a] = sc[b] /\ PRIORITY(a) < PRIORITY(b))
ranked(sc) ==
    [i \in 1 .. Len(ScoredTypes) |->
       CHOOSE t \in ScoredSet :
         Cardinality({u \in ScoredSet : ranks_before(sc, u, t)}) = i - 1]

First2(q) == SubSeq(q, 1, IF Len(q) < 2 THEN Len(q) ELSE 2)

\* line 104: the two best categories among those scoring at least 2
ranked_selection(sc) ==
    First2(SelectSeq(ranked(sc), LAMBDA t : sc[t] >= 2))

\* Variant: security is not forced in.
keep_selection(sc, selected) == selected

\* lines 106-108
force_security(sc, selected) ==
    IF sc["security"] > 0 /\ "security" \notin Range(selected)
    THEN First2(<<"security">> \o selected)
    ELSE selected

\* Variant: an empty selection always becomes misc.
fallback_misc(sc, selected) ==
    IF selected = <<>> THEN <<MISC>> ELSE selected

\* lines 110-115
fallback(sc, selected) ==
    IF selected = <<>>
    THEN IF sc[ranked(sc)[1]] > 0 THEN <<ranked(sc)[1]>> ELSE <<MISC>>
    ELSE selected

\* Variant: fix and perf each add one.
impact_score_fix_and_perf(selected) ==
    LET has(t) == t \in Range(selected) IN
    Min(10, 1 + (IF has("security") THEN 4 ELSE 0)
              + (IF has("breaking") THEN 3 ELSE 0)
              + (IF has("feature") THEN 2 ELSE 0)
              + (IF has("fix") THEN 1 ELSE 0)
              + (IF has("perf") THEN 1 ELSE 0))

\* lines 121-129
impact_score(selected) ==
    LET has(t) == t \in Range(selected) IN
    Min(10, 1 + (IF has("security") THEN 4 ELSE 0)
              + (IF has("breaking") THEN 3 ELSE 0)
              + (IF has("feature") THEN 2 ELSE 0)
              + (IF has("fix") \/ has("perf") THEN 1 ELSE 0))

\* lines 89-136
classify_event(m) ==
    LET sc == scores(m)
        selected == fallback(sc, force_security(sc, ranked_selection(sc)))
    IN [event_types |-> selected,
        impact_score |-> impact_score(selected),
        is_security |-> "security" \in Range(selected),
        is_breaking |-> "breaking" \in Range(selected)]

EventIdle ==
    [input |-> [t \in ScoredSet |-> [title |-> 0, body |-> 0, section |-> 0]],
     result |-> None]

\* classify_event is called on a title and a body
classify ==
    /\ pc = "classify"
    /\ event.result = None
    /\ event' = [event EXCEPT !.result = classify_event(event.input)]
    /\ UNCHANGED <<pc, mode, client, rollup, selection>>
    /\ UNCHANGED orchVars
    /\ UNCHANGED stageVars
    /\ UNCHANGED compVars2

\* ==================================================== star-history rollup
\* rollup_star_points(points, today, recent_days).  Dates are day numbers
\* in a calendar of 365-day years; MonthOf numbers the calendar months.
MonthEnds == <<31, 59, 90, 120, 151, 181, 212, 243, 273, 304, 334>>
MaxDay == 3 * 365
MonthOf ==
    [d \in 0 .. MaxDay |->
       (d \div 365) * 12
         + Cardinality({m \in DOMAIN MonthEnds : MonthEnds[m] <= d % 365})]

\* The inputs: one point per day over a span of more than 120 days that
\* ends today, with star counts that never decrease.
SpanDays == (121 .. (121 + MaxExtraSpan)) \cup {365}
TodayChoices == 730 .. 760
RecentDaysChoices == {30, 90}
DailyGrowth == {0, 1}
StarSeries(span, today, growth) ==
    [d \in (today - span + 1) .. today |->
       100 + growth * (d - (today - span + 1))]

\* Variant: the window is (today - recent_days, today].
recent_points_exclusive(points, today, recent_days) ==
    {d \in DOMAIN points : d > today - recent_days /\ d <= today}

\* the points of the window [today - recent_days, today]
recent_points(points, today, recent_days) ==
    {d \in DOMAIN points : d >= today - recent_days /\ d <= today}

\* the points older than the window
older_points(points, today, recent_days) ==
    {d \in DOMAIN points : d < today - recent_days}

\* Variant: the older points are all kept.
monthly_representatives_all(older) == older

\* one point per calendar month: the latest of the month
monthly_representatives(older) ==
    {d \in older : \A e \in older : MonthOf[e] = MonthOf[d] => e <= d}

\* The rolled points, keyed by date.
rollup_star_points(points, today, recent_days) ==
    LET keep == recent_points(points, today, recent_days)
                  \cup monthly_representatives(
                         older_points(points, today, recent_days))
    IN [d \in keep |-> points[d]]

RollupIdle ==
    [points |-> <<>>, today |-> 0, recent_days |-> 0, rolled |-> None]

\* rollup_star_points is called
roll ==
    /\ pc = "rollup"
    /\ rollup.rolled = None
    /\ rollup' = [rollup EXCEPT
                    !.rolled = rollup_star_points(rollup.points, rollup.today,
                                                  rollup.recent_days)]
    /\ UNCHANGED <<pc, mode, client, event, selection>>
    /\ UNCHANGED orchVars
    /\ UNCHANGED stageVars
    /\ UNCHANGED compVars2

\* ===================================================== candidate selection
\* run_projects_stage, lines 286-322: the baseline and the discovered
\* payloads become candidates, the selector picks, the picked payloads are
\* looked up again.  A payload per repository id, or none; "archived" and
\* "disabled" are the payload's flags, `relevant` whether its description
\* or topics match a keyword.
RepoIds == 1 .. MaxRepos
PayloadChoices ==
    {a \in [status : {"absent", "active", "archived", "disabled"},
            relevant : BOOLEAN] : a.status = "absent" => ~a.relevant}
PayloadLists(f) ==
    LET ids == {r \in RepoIds : f[r].status # "absent"}
        nth(i) == CHOOSE r \in ids : Cardinality({q \in ids : q < r}) = i - 1
    IN [i \in 1 .. Cardinality(ids) |->
          [id |-> nth(i), full_name |-> "owner/repo",
           archived |-> f[nth(i)].status = "archived",
           disabled |-> f[nth(i)].status = "disabled",
           relevant |-> f[nth(i)].relevant, stargazers_count |-> 500]]

\* lines 632-641: f"github:{repo_id}"
repo_external_id(payload) == [github |-> payload.id]

\* lines 608-629
repo_payload_to_candidate(payload) ==
    [external_id |-> repo_external_id(payload),
     full_name |-> payload.full_name,
     relevant |-> payload.relevant,
     stars |-> payload.stargazers_count,
     archived |-> payload.archived,
     disabled |-> payload.disabled]

ExternalIds(candidates) == {candidates[i].external_id : i \in DOMAIN candidates}

\* lines 294-298: the last payload of each external id wins
payload_by_external_id(all_payloads) ==
    [e \in {repo_external_id(all_payloads[i]) : i \in DOMAIN all_payloads} |->
       LET last == CHOOSE i \in DOMAIN all_payloads :
                     /\ repo_external_id(all_payloads[i]) = e
                     /\ \A k \in DOMAIN all_payloads :
                          repo_external_id(all_payloads[k]) = e => k <= i
       IN all_payloads[last]]

\* lines 300-304
manual_candidates(baseline_payloads) ==
    [i \in DOMAIN baseline_payloads |->
       repo_payload_to_candidate(baseline_payloads[i])]

\* lines 305-309
auto_candidates(auto_payloads, manual) ==
    SelectSeq([i \in DOMAIN auto_payloads |->
                 repo_payload_to_candidate(auto_payloads[i])],
              LAMBDA c : c.external_id \notin ExternalIds(manual))

\* CandidateSelector ranking: relevance, then stars, then external id
candidate_before(a, b) ==
    \/ a.relevant /\ ~b.relevant
    \/ a.relevant = b.relevant /\ a.stars > b.stars
    \/ a.relevant = b.relevant /\ a.stars = b.stars
         /\ a.external_id.github < b.external_id.github
rank_candidates(cands) ==
    LET S == Range(cands) IN
    [i \in 1 .. Cardinality(S) |->
       CHOOSE c \in S :
         Cardinality({d \in S : candidate_before(d, c)}) = i - 1]

\* Variant: the merged list is cut to target_count, baseline included.
select_candidates_cut_all(manual, auto, target_count) ==
    LET eligible == SelectSeq(auto, LAMBDA c :
                       /\ c.external_id \notin ExternalIds(manual)
                       /\ ~c.archived /\ ~c.disabled)
        merged == manual \o rank_candidates(eligible)
    IN SubSeq(merged, 1, Min(target_count, Len(merged)))

\* CandidateSelector.select_candidates: the baseline in full, then the
\* eligible discovered candidates by rank while target_count allows
select_candidates(manual, auto, target_count) ==
    LET eligible == SelectSeq(auto, LAMBDA c :
                       /\ c.external_id \notin ExternalIds(manual)
                       /\ ~c.archived /\ ~c.disabled)
        ranked_auto == rank_candidates(eligible)
        room == Max(target_count - Len(manual), 0)
    IN manual \o SubSeq(ranked_auto, 1, Min(room, Len(ranked_auto)))

\* lines 286-322
discover_and_select(baseline_payloads, auto_payloads, target_count) ==
    LET by_id == payload_by_external_id(baseline_payloads \o auto_payloads)
        manual == manual_candidates(baseline_payloads)
        auto == auto_candidates(auto_payloads, manual)
        selected == select_candidates(manual, auto, target_count)
    IN [manual |-> manual, auto |-> auto, selected |-> selected,
        candidates_discovered |-> Len(manual) + Len(auto),
        candidates_selected |-> Len(selected),
        payloads |-> [i \in DOMAIN selected |->
                        by_id[selected[i].external_id]]]

\* `at` is the position of run_projects_stage, `session` what was done
\* with the database session so far, `stage_result` what the runner returned.
SelectionIdle ==
    [baseline_payloads |-> <<>>, auto_payloads |-> <<>>, target_count |-> 0,
     result |-> None, at |-> "discover", session |-> <<>>,
     stage_result |-> None]

\* the discovery branch of run_projects_stage runs
discover ==
    /\ pc = "select"
    /\ selection.result = None
    /\ selection.at = "discover"
    /\ selection' =
         [selection EXCEPT
            !.result = discover_and_select(selection.baseline_payloads,
                                           selection.auto_payloads,
                                           selection.target_count),
            !.session = <<"open">>,
            !.at = "ingest"]
    /\ UNCHANGED <<pc, mode, client, event, rollup>>
    /\ UNCHANGED orchVars
    /\ UNCHANGED stageVars
    /\ UNCHANGED compVars2

\* lines 286-322 raise: the client factory, a fetch or the selector fails
discover_raises ==
    /\ pc = "select"
    /\ selection.result = None
    /\ selection.at = "discover"
    /\ selection' = [selection EXCEPT !.session = <<"open">>,
                                      !.at = "failed"]
    /\ UNCHANGED <<pc, mode, client, event, rollup>>
    /\ UNCHANGED orchVars
    /\ UNCHANGED stageVars
    /\ UNCHANGED compVars2

\* What the store does in lines 336-342: the ingest and the commit go
\* through, or one of them raises.
ProjectsIngestBehaviours == {"ok", "ingest_raises", "commit_raises"}

\* Variant: an empty payload list is ingested like any other.
projects_nothing_discovered_never(stage_payloads) == FALSE

\* line 329: not payloads
projects_nothing_discovered(stage_payloads) == stage_payloads = <<>>

\* lines 329-349: the rest of run_projects_stage.  `rb` and `c` say whether
\* db.rollback() and db.close() raise.
projects_stage_end(s, b, rb, c) ==
    LET failed_before == s.at = "failed"
        empty == ~failed_before /\ projects_nothing_discovered(s.result.payloads)
        body_ops == IF failed_before \/ empty THEN <<>>
                    ELSE IF b = "ok" THEN <<"ingest", "commit">>
                    ELSE IF b = "ingest_raises" THEN <<"ingest">>
                    ELSE <<"ingest", "commit_raised">>
        body_raised == failed_before \/ (~empty /\ b # "ok")
        handler_ops == IF body_raised THEN <<"rollback">> ELSE <<>>
        raised == (body_raised /\ rb = "raise") \/ c = "raise"
        st == IF failed_before
              THEN [candidates_discovered |-> 0, candidates_selected |-> 0,
                    input |-> 0]
              ELSE [candidates_discovered |-> s.result.candidates_discovered,
                    candidates_selected |-> s.result.candidates_selected,
                    input |-> IF body_raised \/ empty THEN 0
                              ELSE Len(s.result.payloads)]
    IN [s EXCEPT
          !.session = @ \o body_ops \o handler_ops \o <<"close">>,
          !.at = IF raised THEN "raised" ELSE "returned",
          !.stage_result =
             IF raised THEN None
             ELSE IF body_raised
                  THEN [success |-> FALSE, error |-> "boom", stats |-> st]
                  ELSE IF empty
                       THEN [success |-> TRUE, skipped |-> TRUE,
                             stats |-> st]
                       ELSE [success |-> TRUE, stats |-> st]]

\* run_projects_stage goes on after the discovery and ends
projects_finish ==
    /\ pc = "select"
    /\ selection.at \in {"ingest", "failed"}
    /\ \E b \in ProjectsIngestBehaviours, rb \in OkRaise, c \in OkRaise :
         selection' = projects_stage_end(selection, b, rb, c)
    /\ UNCHANGED <<pc, mode, client, event, rollup>>
    /\ UNCHANGED orchVars
    /\ UNCHANGED stageVars
    /\ UNCHANGED compVars2

\* ========================================================= overview stage
\* ProjectOverviewStage over an OverviewRepository, a source aggregator and
\* a summarizer.  The stage is run OverviewRuns times in a row over the
\* same project list and the same repository.
OverviewRuns == 2
SourceTexts == {"readme v1", "readme v2"}
\* the content hash the aggregator computes for a collected source
RawHash(text) == IF text = "readme v1" THEN "hash-1" ELSE "hash-2"
OverviewProjectLists ==
    UNION {[1 .. n -> ProjectIds] : n \in 0 .. MaxProjects}
\* what collect and summarize do for one project
CollectBehaviours == {"ok", "raise"}
SummarizeBehaviours == {"ok", "raise"}

OverviewStageStats ==
    [processed |-> 0, updated |-> 0, skipped |-> 0, failed |-> 0]

\* the aggregator's collect: the fresh source, and skipped when its hash is
\* the previous one
collect(text, previous_raw_hash) ==
    [raw_text |-> text, raw_hash |-> RawHash(text),
     skipped |-> (previous_raw_hash = RawHash(text))]

\* OverviewRepository.upsert (lines 49-56)
upsert(store, project_id, payload) ==
    [store EXCEPT ![project_id] = payload]

\* Variant: the skipped flag of the collected source is not looked at.
process_project_always_summarize(o, project_id, cb, sb) ==
    LET existing == o.store[project_id]
        previous_hash == IF existing # None THEN existing.raw_hash ELSE "none"
        source_payload == collect(o.sources[project_id], previous_hash)
    IN IF cb = "raise" THEN [o |-> o, changed |-> "raised"]
       ELSE LET called == [o EXCEPT !.calls[project_id] = @ + 1] IN
            IF sb = "raise" THEN [o |-> called, changed |-> "raised"]
            ELSE [o |-> [called EXCEPT
                           !.store = upsert(@, project_id,
                                [summary |-> source_payload.raw_text,
                                 raw_hash |-> source_payload.raw_hash,
                                 summarized_in |-> o.run])],
                  changed |-> "true"]

\* _process_project (lines 87-120): "none" for a skipped project, "true"
\* for an upserted one, "raised" when collect or summarize raised
process_project(o, project_id, cb, sb) ==
    LET existing == o.store[project_id]
        previous_hash == IF existing # None THEN existing.raw_hash ELSE "none"
        source_payload == collect(o.sources[project_id], previous_hash)
    IN IF cb = "raise" THEN [o |-> o, changed |-> "raised"]
       ELSE IF source_payload.skipped THEN [o |-> o, changed |-> "none"]
       ELSE LET called == [o EXCEPT !.calls[project_id] = @ + 1] IN
            IF sb = "raise" THEN [o |-> called, changed |-> "raised"]
            ELSE [o |-> [called EXCEPT
                           !.store = upsert(@, project_id,
                                [summary |-> source_payload.raw_text,
                                 raw_hash |-> source_payload.raw_hash,
                                 summarized_in |-> o.run])],
                  changed |-> "true"]

\* lines 75-85: the loop body of run for one project
overview_run_one(o, project_id, cb, sb) ==
    LET r == process_project(o, project_id, cb, sb)
        st == [o.stats EXCEPT !.processed = @ + 1] IN
    [r.o EXCEPT
       !.stats = CASE r.changed = "none" -> [st EXCEPT !.skipped = @ + 1]
                   [] r.changed = "true" -> [st EXCEPT !.updated = @ + 1]
                   [] OTHER -> [st EXCEPT !.failed = @ + 1],
       !.idx = @ + 1,
       !.last = [project |-> project_id, collect |-> cb, summarize |-> sb]]

\* one project of the loop of run
overview_project ==
    /\ pc = "overview"
    /\ overview.idx <= Len(overview.projects)
    /\ \E cb \in CollectBehaviours, sb \in SummarizeBehaviours :
         overview' = overview_run_one(overview,
                                      overview.projects[overview.idx], cb, sb)
    /\ UNCHANGED <<pc, mode, summarizer, wiki, discovery, fetches>>
    /\ UNCHANGED orchVars
    /\ UNCHANGED stageVars
    /\ UNCHANGED compVars

\* line 86: run returns its stats; the stage is then run again, over
\* sources that stayed as they were or over a changed source of project 1
overview_return ==
    /\ pc = "overview"
    /\ overview.idx > Len(overview.projects)
    /\ overview.run <= OverviewRuns
    /\ \E text \in SourceTexts :
         overview' =
           [overview EXCEPT
              !.returned = Append(@, overview.stats),
              !.run = @ + 1,
              !.idx = IF overview.run < OverviewRuns THEN 1 ELSE @,
              !.stats = OverviewStageStats,
              !.last = None,
              !.sources = IF overview.run < OverviewRuns
                          THEN [@ EXCEPT ![1] = text] ELSE @,
              !.changed = @ \/ (overview.run < OverviewRuns
                                  /\ text # overview.sources[1])]
    /\ UNCHANGED <<pc, mode, summarizer, wiki, discovery, fetches>>
    /\ UNCHANGED orchVars
    /\ UNCHANGED stageVars
    /\ UNCHANGED compVars

\* ==================================================== overview summarizer
\* OverviewSummarizerService.summarize.  What one LLM call gives: a dict
\* whose summary is acceptable, blank or not neutral, a string that is no
\* JSON, a value that is neither dict nor string, or an exception of the
\* call itself that summarize does not catch.
PLACEHOLDER_TEXT == "placeholder"
LlmResponses ==
    {[type |-> "dict", summary |-> "a factual summary"],
     [type |-> "dict", summary |-> " "],
     [type |-> "dict", summary |-> "the best!!!"],
     [type |-> "str", summary |-> "no json"],
     [type |-> "int", summary |-> ""],
     [type |-> "raises", summary |-> ""]}

\* lines 83-84 with _parse_response (113-125) and the validators (24-34):
\* "valid", or the exception class raised
validate_response(resp) ==
    CASE resp.type = "raises" -> "RuntimeError"
      [] resp.type = "int" -> "TypeError"
      [] resp.type = "str" -> "JSONDecodeError"
      [] Strip(resp.summary) = "" -> "ValidationError"
      [] resp.summary = "the best!!!" -> "ValidationError"
      [] OTHER -> "valid"

\* line 86: the exception classes of the except clause
summarize_catches(exc) ==
    exc \in {"ValidationError", "ValueError", "TypeError", "JSONDecodeError"}

\* lines 91-96
placeholder_summary ==
    [summary |-> PLACEHOLDER_TEXT, highlights |-> <<>>, quickstart |-> None]

\* line 85: validated.model_dump()
validated_summary(resp) ==
    [summary |-> Strip(resp.summary), highlights |-> <<"point">>,
     quickstart |-> None]

\* Variant: the loop gives up one attempt late.
summarize_gives_up_late(attempt, max_attempts) == attempt > max_attempts

\* line 87: the attempt was the last one
summarize_gives_up(attempt, max_attempts) == attempt = max_attempts

\* lines 81-89: one iteration of the loop
summarize_attempt(s, resp) ==
    LET called == [s EXCEPT !.log = Append(@, resp)]
        v == validate_response(resp) IN
    IF v = "valid"
    THEN [called EXCEPT !.at = "returned", !.result = validated_summary(resp)]
    ELSE IF ~summarize_catches(v) THEN [called EXCEPT !.at = "raised"]
    ELSE IF summarize_gives_up(s.attempt, s.max_attempts)
         THEN [called EXCEPT !.at = "returned",
                             !.result = placeholder_summary]
         ELSE [called EXCEPT !.sleeps = @ + 1, !.attempt = @ + 1]

\* summarize is called; the loop has an attempt left
summarize_call ==
    /\ pc = "summarize"
    /\ summarizer.at = "call"
    /\ \E resp \in LlmResponses :
         summarizer' = summarize_attempt(summarizer, resp)
    /\ UNCHANGED <<pc, mode, overview, wiki, discovery, fetches>>
    /\ UNCHANGED orchVars
    /\ UNCHANGED stageVars
    /\ UNCHANGED compVars

\* ========================================================= wiki contracts
\* calculate_hidden_sections over a WikiSnapshot.  Summaries are empty,
\* blank or text; the counts of the readiness metadata lie on both sides
\* of the gates' thresholds.
SectionTypes == <<"what", "how", "architecture", "activity", "releases", "chat">>
SectionSummaries == {"", " ", "text"}
ReadinessMetadata ==
    [has_12mo_history : BOOLEAN, event_count_12mo : {4, 5},
     has_release_coverage : BOOLEAN, release_count : {0, 1, 3},
     tag_count : {0, 2}, has_sufficient_readme : BOOLEAN]
\* the sections of a snapshot; the summaries of releases and chat are text
WikiSnapshots ==
    {[what |-> [summary |-> w], how |-> [summary |-> h],
      architecture |-> [summary |-> a], activity |-> [summary |-> c],
      releases |-> [summary |-> "text"], chat |-> [summary |-> "text"],
      readiness_metadata |-> m] :
        w \in SectionSummaries, h \in SectionSummaries,
        a \in SectionSummaries, c \in {"", "text"}, m \in ReadinessMetadata}

\* Variant: what and how are gated on the readme like architecture.
is_section_ready_readme_gated(section, section_type, metadata) ==
    CASE section_type \in {"what", "how", "architecture"} ->
           metadata.has_sufficient_readme /\ Strip(section.summary) # ""
      [] section_type = "activity" ->
           metadata.has_12mo_history /\ metadata.event_count_12mo >= 5
      [] section_type = "releases" ->
           metadata.has_release_coverage
             /\ metadata.release_count + metadata.tag_count >= 3
      [] section_type = "chat" ->
           metadata.has_sufficient_readme /\ metadata.has_12mo_history
      [] OTHER -> TRUE

\* lines 114-143
is_section_ready(section, section_type, metadata) ==
    CASE section_type \in {"what", "how"} -> Strip(section.summary) # ""
      [] section_type = "architecture" ->
           metadata.has_sufficient_readme /\ Strip(section.summary) # ""
      [] section_type = "activity" ->
           metadata.has_12mo_history /\ metadata.event_count_12mo >= 5
      [] section_type = "releases" ->
           metadata.has_release_coverage
             /\ metadata.release_count + metadata.tag_count >= 3
      [] section_type = "chat" ->
           metadata.has_sufficient_readme /\ metadata.has_12mo_history
      [] OTHER -> TRUE

\* lines 165-169: the loop over sections_to_check from entry i on
RECURSIVE hidden_from(_, _, _)
hidden_from(snapshot, i, hidden) ==
    IF i > Len(SectionTypes) THEN hidden
    ELSE LET section_type == SectionTypes[i] IN
         hidden_from(snapshot, i + 1,
                     IF ~is_section_ready(snapshot[section_type], section_type,
                                          snapshot.readiness_metadata)
                     THEN Append(hidden, section_type) ELSE hidden)

\* lines 146-171
calculate_hidden_sections(snapshot) == hidden_from(snapshot, 1, <<>>)

\* calculate_hidden_sections is called on the snapshot
hide_sections ==
    /\ pc = "wiki"
    /\ ~wiki.called
    /\ wiki' = [wiki EXCEPT !.hidden = calculate_hidden_sections(wiki.snapshot),
                            !.called = TRUE]
    /\ UNCHANGED <<pc, mode, overview, summarizer, discovery, fetches>>
    /\ UNCHANGED orchVars
    /\ UNCHANGED stageVars
    /\ UNCHANGED compVars

\* ==================================================== repository discovery
\* _discover_repositories: for each keyword chunk, the search pages
\* 1..search_pages.  A page comes back OK with repositories, EMPTY, or
\* FAILED.
search_pages == 5
PageStates == {"OK", "EMPTY", "FAILED"}

\* lines 551-558: what the loop does with the page's response
page_ends_chunk(state) == state = "FAILED"
page_payloads(state) == IF state = "OK" THEN 1 ELSE 0

\* lines 541-558: one search request and what follows it
discover_request(d, state) ==
    LET asked == [d EXCEPT
                    !.requests = Append(@, [chunk |-> d.chunk,
                                            page |-> d.page,
                                            state |-> state]),
                    !.all_payloads = @ + page_payloads(state)]
        chunk_over == page_ends_chunk(state) \/ d.page = search_pages
    IN IF ~chunk_over THEN [asked EXCEPT !.page = @ + 1]
       ELSE IF d.chunk < MaxChunks
            THEN [asked EXCEPT !.chunk = @ + 1, !.page = 1]
            ELSE [asked EXCEPT !.at = "returned"]

\* one iteration of the page loop
discover_page ==
    /\ pc = "discover"
    /\ discovery.at = "search"
    /\ \E state \in PageStates :
         discovery' = discover_request(discovery, state)
    /\ UNCHANGED <<pc, mode, overview, summarizer, wiki, fetches>>
    /\ UNCHANGED orchVars
    /\ UNCHANGED stageVars
    /\ UNCHANGED compVars

\* ================================================= per-repository fetches
\* The loop of _fetch_payloads: one get_repo per tracked project, awaited
\* in turn.  Inside get_repo the client may wait out a rate limit or a
\* backoff delay, up to MaxClientRetries times, before the call returns.
FetchIdle(tracked) ==
    [projects |-> tracked, idx |-> 1,
     state |-> [i \in DOMAIN tracked |-> "pending"],
     waits |-> [i \in DOMAIN tracked |-> 0],
     payloads |-> <<>>, failed |-> 0]

\* line 440: the for loop is at an entry whose fetch it has not awaited yet
fetch_loop_at(f, i) ==
    /\ f.idx = i
    /\ i \in DOMAIN f.projects
    /\ f.state[i] = "pending"

\* line 442: the loop awaits get_repo for entry i
fetch_await(i) ==
    /\ pc = "fetch"
    /\ fetch_loop_at(fetches, i)
    /\ fetches' = [fetches EXCEPT !.state[i] = "in_flight"]
    /\ UNCHANGED <<pc, mode, overview, summarizer, wiki, discovery>>
    /\ UNCHANGED orchVars
    /\ UNCHANGED stageVars
    /\ UNCHANGED compVars

\* inside get_repo: the client starts waiting out a rate limit or backoff
client_waits(i) ==
    /\ pc = "fetch"
    /\ i \in DOMAIN fetches.projects
    /\ fetches.state[i] = "in_flight"
    /\ fetches.waits[i] < MaxClientRetries
    /\ fetches' = [fetches EXCEPT !.state[i] = "waiting",
                                  !.waits[i] = @ + 1]
    /\ UNCHANGED <<pc, mode, overview, summarizer, wiki, discovery>>
    /\ UNCHANGED orchVars
    /\ UNCHANGED stageVars
    /\ UNCHANGED compVars

\* inside get_repo: the delay is over and the request is sent again
client_resumes(i) ==
    /\ pc = "fetch"
    /\ i \in DOMAIN fetches.projects
    /\ fetches.state[i] = "waiting"
    /\ fetches' = [fetches EXCEPT !.state[i] = "in_flight"]
    /\ UNCHANGED <<pc, mode, overview, summarizer, wiki, discovery>>
    /\ UNCHANGED orchVars
    /\ UNCHANGED stageVars
    /\ UNCHANGED compVars

\* lines 443-460: get_repo returned; the response is counted as failed or
\* its payload is kept, and the loop moves to the next entry
fetch_returns(i) ==
    /\ pc = "fetch"
    /\ i \in DOMAIN fetches.projects
    /\ fetches.state[i] = "in_flight"
    /\ \E is_failed_response \in BOOLEAN :
         fetches' =
           [fetches EXCEPT
              !.state[i] = "done",
              !.idx = @ + 1,
              !.failed = IF is_failed_response THEN @ + 1 ELSE @,
              !.payloads = IF is_failed_response THEN @
                           ELSE Append(@, fetches.projects[i].id)]
    /\ UNCHANGED <<pc, mode, overview, summarizer, wiki, discovery>>
    /\ UNCHANGED orchVars
    /\ UNCHANGED stageVars
    /\ UNCHANGED compVars

\* --------------------------------------------------------- specifications
NoWebhookConfig == [url |-> "", secret |-> "", max_retries |-> 0]

\* No stage runner has started.
StageIdle ==
    /\ projects = <<>>
    /\ proj_idx = 1
    /\ db = EmptyDb
    /\ stats = None
    /\ stage_result = None
    /\ unit_log = <<>>
    /\ faults = {}
    /\ payloads = <<>>
    /\ upstream = <<>>
    /\ run_no = 1
    /\ snapshots = <<>>
    /\ requested_metrics_days = 1
    /\ checkpoints = <<>>

\* No component call is in progress.
CompIdle ==
    /\ client = ClientIdle
    /\ event = EventIdle
    /\ rollup = RollupIdle
    /\ selection = SelectionIdle

\* No call of the overview stage, the summarizer, the wiki contracts, the
\* discovery or a fetch loop is in progress.
Comp2Idle ==
    /\ overview = None
    /\ summarizer = None
    /\ wiki = None
    /\ discovery = None
    /\ fetches = None

\* No run is in progress around the stage runner.
OrchIdle ==
    /\ stages = <<>>
    /\ stage_idx = 1
    /\ run_stats = None
    /\ call_order = <<>>
    /\ outcomes = <<>>
    /\ schema = "pending"
    /\ wh_cfg = NoWebhookConfig
    /\ wh = DispatchStart
    /\ dispatches = 0

\* A whole run, from the entry point to the returned RunStats.
Init ==
    /\ Comp2Idle
    /\ pc = "idle"
    /\ mode = "daily"
    /\ stages = <<>>
    /\ stage_idx = 1
    /\ run_stats = None
    /\ call_order = <<>>
    /\ outcomes = <<>>
    /\ schema = "pending"
    /\ wh_cfg = NoWebhookConfig
    /\ wh = DispatchStart
    /\ dispatches = 0
    /\ StageIdle
    /\ CompIdle

Next ==
    \/ run_daily_sync
    \/ run_backfill
    \/ run_start
    \/ run_stage_entry
    \/ run_finalize
    \/ run_dispatch_webhook
    \/ run_return

Spec == Init /\ [][Next]_vars

\* The end of a run, attempt by attempt: the stage loop of a run of one
\* stage is over, the dispatch and the return follow.
InitWebhook ==
    /\ Comp2Idle
    /\ pc = "stages"
    /\ mode \in {"daily", "backfill"}
    /\ stages = <<STAGE_EVENTS>>
    /\ stage_idx = 2
    /\ \E out \in StageOutcomes, started_at \in Times :
         /\ run_stats = run_stage([mode |-> mode, started_at |-> started_at,
                                   stages_requested |-> stages,
                                   stages |-> <<>>, errors |-> <<>>],
                                  STAGE_EVENTS, out)
         /\ outcomes = <<[stage |-> STAGE_EVENTS,
                          failed |-> StageFailed(STAGE_EVENTS, out)]>>
    /\ call_order = <<STAGE_EVENTS>>
    /\ schema = "ok"
    /\ wh_cfg = NoWebhookConfig
    /\ wh = DispatchStart
    /\ dispatches = 0
    /\ StageIdle
    /\ CompIdle

NextWebhook ==
    \/ run_finalize
    \/ dispatch_begin
    \/ dispatch_post
    \/ dispatch_exhausted
    \/ run_return

SpecWebhook == InitWebhook /\ [][NextWebhook]_vars

\* The events stage runner alone, project by project, on every tracked list.
InitEvents ==
    /\ Comp2Idle
    /\ pc = "events_begin"
    /\ mode \in {"daily", "backfill"}
    /\ OrchIdle
    /\ projects \in TrackedLists
    /\ proj_idx = 1
    /\ db = EmptyDb
    /\ stats = None
    /\ stage_result = None
    /\ unit_log = <<>>
    /\ faults = {}
    /\ payloads = <<>>
    /\ upstream = <<>>
    /\ run_no = 1
    /\ snapshots = <<>>
    /\ requested_metrics_days = 1
    /\ checkpoints \in CheckpointInputs
    /\ CompIdle

NextEvents ==
    \/ events_begin
    \/ events_project
    \/ events_end

SpecEvents == InitEvents /\ [][NextEvents]_vars

\* The metrics stage runner alone, invoked up to MaxRuns times in a row on
\* the same store with the same upstream answers and the same snapshot day.
InitMetrics ==
    /\ Comp2Idle
    /\ pc = "metrics_begin"
    /\ mode \in {"daily", "backfill"}
    /\ OrchIdle
    /\ projects \in TrackedLists
    /\ proj_idx = 1
    /\ db = EmptyDb
    /\ stats = None
    /\ stage_result = None
    /\ unit_log = <<>>
    /\ faults = {}
    /\ payloads = <<>>
    /\ upstream \in [{projects[i].id : i \in DOMAIN projects} -> FetchResults]
    /\ run_no = 1
    /\ snapshots = <<>>
    /\ requested_metrics_days \in 1 .. (BackfillCapDays + 1)
    /\ checkpoints = <<>>
    /\ CompIdle

NextMetrics ==
    \/ metrics_begin
    \/ metrics_fetch
    \/ metrics_finish
    \/ metrics_abort
    \/ metrics_rerun

SpecMetrics == InitMetrics /\ [][NextMetrics]_vars

\* One fetch of the API client, request by request, for every max_retries,
\* every stored etag and every answer to each request.
InitClient ==
    /\ Comp2Idle
    /\ pc = "client"
    /\ mode = "daily"
    /\ OrchIdle
    /\ StageIdle
    /\ client = ClientIdle
    /\ event = EventIdle
    /\ rollup = RollupIdle
    /\ selection = SelectionIdle

NextClient ==
    \/ client_fetch
    \/ client_attempt

SpecClient == InitClient /\ [][NextClient]_vars

\* One classification, for every combination of match counts.
InitClassifier ==
    /\ Comp2Idle
    /\ pc = "classify"
    /\ mode = "daily"
    /\ OrchIdle
    /\ StageIdle
    /\ client = ClientIdle
    /\ rollup = RollupIdle
    /\ selection = SelectionIdle
    /\ \E m \in ClassifierInputs : event = [input |-> m, result |-> None]

NextClassifier == classify

SpecClassifier == InitClassifier /\ [][NextClassifier]_vars

\* One rollup, for every span, today, recent_days and growth.
InitRollup ==
    /\ Comp2Idle
    /\ pc = "rollup"
    /\ mode = "daily"
    /\ OrchIdle
    /\ StageIdle
    /\ client = ClientIdle
    /\ event = EventIdle
    /\ selection = SelectionIdle
    /\ \E span \in SpanDays, today \in TodayChoices,
          recent_days \in RecentDaysChoices, growth \in DailyGrowth :
         rollup = [points |-> StarSeries(span, today, growth),
                   today |-> today, recent_days |-> recent_days,
                   rolled |-> None]

NextRollup == roll

SpecRollup == InitRollup /\ [][NextRollup]_vars

\* One discovery, for every baseline, every discovered list and target.
InitSelector ==
    /\ Comp2Idle
    /\ pc = "select"
    /\ mode = "daily"
    /\ OrchIdle
    /\ StageIdle
    /\ client = ClientIdle
    /\ event = EventIdle
    /\ rollup = RollupIdle
    /\ \E b \in [RepoIds -> PayloadChoices], a \in [RepoIds -> PayloadChoices],
          target_count \in 0 .. (MaxRepos + 1) :
         selection = [baseline_payloads |-> PayloadLists(b),
                      auto_payloads |-> PayloadLists(a),
                      target_count |-> target_count, result |-> None,
                      at |-> "discover", session |-> <<>>,
                      stage_result |-> None]

NextSelector == discover

SpecSelector == InitSelector /\ [][NextSelector]_vars

\* The overview stage run twice, for every project list and every
\* behaviour of the aggregator and the summarizer.
InitOverview ==
    /\ pc = "overview"
    /\ mode = "daily"
    /\ OrchIdle
    /\ StageIdle
    /\ CompIdle
    /\ summarizer = None
    /\ wiki = None
    /\ discovery = None
    /\ fetches = None
    /\ \E l \in OverviewProjectLists :
         overview = [projects |-> l,
                     sources |-> [p \in ProjectIds |-> "readme v1"],
                     store |-> [p \in ProjectIds |-> None],
                     calls |-> [p \in ProjectIds |-> 0],
                     run |-> 1, idx |-> 1, stats |-> OverviewStageStats,
                     returned |-> <<>>, last |-> None, changed |-> FALSE]

NextOverview ==
    \/ overview_project
    \/ overview_return

SpecOverview == InitOverview /\ [][NextOverview]_vars

\* One call of summarize, for every max_attempts and every sequence of
\* LLM responses.
InitSummarizer ==
    /\ pc = "summarize"
    /\ mode = "daily"
    /\ OrchIdle
    /\ StageIdle
    /\ CompIdle
    /\ overview = None
    /\ wiki = None
    /\ discovery = None
    /\ fetches = None
    /\ \E n \in 1 .. MaxSummaryAttempts :
         summarizer = [max_attempts |-> n, attempt |-> 1, sleeps |-> 0,
                       log |-> <<>>, at |-> "call", result |-> None]

NextSummarizer == summarize_call

SpecSummarizer == InitSummarizer /\ [][NextSummarizer]_vars

\* One call of calculate_hidden_sections, for every snapshot.
InitWiki ==
    /\ pc = "wiki"
    /\ mode = "daily"
    /\ OrchIdle
    /\ StageIdle
    /\ CompIdle
    /\ overview = None
    /\ summarizer = None
    /\ discovery = None
    /\ fetches = None
    /\ \E snapshot \in WikiSnapshots :
         wiki = [snapshot |-> snapshot, hidden |-> <<>>, called |-> FALSE]

NextWiki == hide_sections

SpecWiki == InitWiki /\ [][NextWiki]_vars

\* One call of _discover_repositories, for every answer to every page.
InitDiscovery ==
    /\ pc = "discover"
    /\ mode = "daily"
    /\ OrchIdle
    /\ StageIdle
    /\ CompIdle
    /\ overview = None
    /\ summarizer = None
    /\ wiki = None
    /\ fetches = None
    /\ discovery = [chunk |-> 1, page |-> 1, requests |-> <<>>,
                    all_payloads |-> 0, at |-> "search"]

NextDiscovery == discover_page

SpecDiscovery == InitDiscovery /\ [][NextDiscovery]_vars

\* The fetch loop of a stage over every list of tracked projects.
InitFetches ==
    /\ pc = "fetch"
    /\ mode = "daily"
    /\ OrchIdle
    /\ StageIdle
    /\ CompIdle
    /\ overview = None
    /\ summarizer = None
    /\ wiki = None
    /\ discovery = None
    /\ \E tracked \in TrackedLists : fetches = FetchIdle(tracked)

NextFetches ==
    \E i \in 1 .. MaxProjects :
      \/ fetch_await(i)
      \/ client_waits(i)
      \/ client_resumes(i)
      \/ fetch_returns(i)

SpecFetches == InitFetches /\ [][NextFetches]_vars

\* run_projects_stage from its first line to its return, over baselines
\* and discovered lists of repositories that are all active.
InitProjects ==
    /\ Comp2Idle
    /\ pc = "select"
    /\ mode = "daily"
    /\ OrchIdle
    /\ StageIdle
    /\ client = ClientIdle
    /\ event = EventIdle
    /\ rollup = RollupIdle
    /\ \E b \in [RepoIds -> {a \in PayloadChoices :
                               a.status \in {"absent", "active"} /\ ~a.relevant}],
          a \in [RepoIds -> {a \in PayloadChoices :
                               a.status \in {"absent", "active"} /\ ~a.relevant}],
          target_count \in {0, MaxRepos} :
         selection = [baseline_payloads |-> PayloadLists(b),
                      auto_payloads |-> PayloadLists(a),
                      target_count |-> target_count, result |-> None,
                      at |-> "discover", session |-> <<>>,
                      stage_result |-> None]

NextProjects ==
    \/ discover
    \/ discover_raises
    \/ projects_finish

SpecProjects == InitProjects /\ [][NextProjects]_vars

\* The retry loop of the dispatch with its sleeps, for every setting of
\* the number of attempts.
InitBackoff ==
    /\ Comp2Idle
    /\ pc = "backoff"
    /\ mode = "daily"
    /\ stages = <<>>
    /\ stage_idx = 1
    /\ run_stats = None
    /\ call_order = <<>>
    /\ outcomes = <<>>
    /\ schema = "pending"
    /\ \E m \in 1 .. MaxBackoffRetries :
         wh_cfg = [url |-> "https://hook", secret |-> "s3cret",
                   max_retries |-> m]
    /\ wh = BackoffStart
    /\ dispatches = 1
    /\ StageIdle
    /\ CompIdle

NextBackoff == backoff_attempt

SpecBackoff == InitBackoff /\ [][NextBackoff]_vars

\* ================================================================= claims
Failed(resp) == ~(resp.kind = "status" /\ resp.code < 400)
Returned == pc = "done"
AnyStageFailed == \E i \in DOMAIN outcomes : outcomes[i].failed

\* C1: stage failure isolation.  Whatever the earlier entries did (returned
\* success, returned a failure, raised, or were unknown), the entries of the
\* requested list are processed one after another in the requested order,
\* every known one has its runner awaited, and the loop ends only when the
\* whole list has been processed.
C1_StageFailureIsolation ==
    pc \in {"stages", "webhook", "dispatched", "done"} =>
      /\ Len(outcomes) = stage_idx - 1
      /\ Len(outcomes) <= Len(stages)
      /\ \A i \in DOMAIN outcomes : outcomes[i].stage = stages[i]
      /\ call_order = SelectSeq(SubSeq(stages, 1, Len(outcomes)),
                                resolve_stage_runner)
      /\ pc # "stages" => Len(outcomes) = Len(stages)

\* A run returned in which the first stage failed and the second was awaited.
C1_Witness ==
    /\ Returned
    /\ Len(outcomes) = 2
    /\ outcomes[1].failed
    /\ call_order = <<STAGE_EVENTS, STAGE_METRICS>>

\* C2: in every returned RunStats, success is true exactly when every
\* executed stage reported success (unit-level failures in a successful
\* stage's stats do not count).
C2_SuccessIffEveryStageSucceeded ==
    Returned => (run_stats.success <=> ~AnyStageFailed)

\* C3: whenever a stage execution of the run failed, the returned RunStats
\* has success=false and a non-empty errors list.
C3_FailureIsReported ==
    (Returned /\ AnyStageFailed) =>
      run_stats.success = FALSE /\ run_stats.errors # <<>>

\* C4: no exception reaches the caller of run_daily_sync / run_backfill.
C4_NothingRaisesPastOrchestrator == pc # "raised"

\* C8: webhook retry bound.  A dispatch makes at most max_retries POSTs (the
\* configured maximum as line 215 reads it), no POST follows a response
\* with status < 400, and such a response ends the dispatch with sent=true,
\* attempts = the number of POSTs made and that response's status code.
C8_WebhookRetryBound ==
    /\ wh.posts = Len(wh.log)
    /\ wh.posts <= max_retries(wh_cfg)
    /\ \A i \in 1 .. Len(wh.log) - 1 : Failed(wh.log[i])
    /\ (wh.log # <<>> /\ ~Failed(wh.log[Len(wh.log)])) =>
         /\ wh.at = "returned"
         /\ wh.result = [sent |-> TRUE, attempts |-> wh.posts,
                         status_code |-> wh.log[Len(wh.log)].code]

\* Delivered at the second attempt, after a failed first one.
C8_Witness ==
    /\ Returned
    /\ "webhook" \in DOMAIN run_stats
    /\ run_stats.webhook.sent
    /\ run_stats.webhook.attempts = 2
    /\ wh.posts = 2

\* C9: webhook exhaustion is reported, never raised.  When every one of the
\* max_retries attempts failed (status >= 400 or an exception), the dispatch
\* result is sent=false with attempts = max_retries and an error text that
\* carries no credential, nothing is raised, and the returned RunStats
\* holds that result.
C9_ExhaustionIsReported ==
    /\ pc # "raised"
    /\ ( /\ pc \in {"dispatched", "done"}
         /\ Len(wh.log) = max_retries(wh_cfg)
         /\ \A i \in DOMAIN wh.log : Failed(wh.log[i]) )
       => /\ DOMAIN wh.result = {"sent", "attempts", "error"}
          /\ wh.result.sent = FALSE
          /\ wh.result.attempts = max_retries(wh_cfg)
          /\ wh.result.error # SecretText
          /\ wh.result.error # ""
          /\ Returned => /\ "webhook" \in DOMAIN run_stats
                         /\ run_stats.webhook = wh.result

\* Three failed attempts, the last one an exception whose text carries a
\* credential; the run returned.
C9_Witness ==
    /\ Returned
    /\ Len(wh.log) = 3
    /\ wh.log[3].msg = SecretText
    /\ "webhook" \in DOMAIN run_stats
    /\ ~run_stats.webhook.sent

\* C10: one webhook per run, at run end.  The dispatch is called at most
\* once, and only when every requested entry has a recorded outcome and
\* success and completed_at are set; before it nothing is posted; with the
\* endpoint or the secret unset nothing is posted at all and the RunStats
\* has no webhook entry.
C10_OneWebhookAtRunEnd ==
    /\ dispatches <= 1
    /\ dispatches = 0 => wh.posts = 0 /\ "webhook" \notin DOMAIN run_stats
    /\ dispatches = 1 =>
         /\ Len(outcomes) = Len(stages)
         /\ \A i \in DOMAIN stages : stages[i] \in DOMAIN run_stats.stages
         /\ {"success", "completed_at"} \subseteq DOMAIN run_stats
    /\ (wh_cfg.url = "" \/ wh_cfg.secret = "") =>
         wh.posts = 0 /\ "webhook" \notin DOMAIN run_stats

\* A run of two stages returned with the endpoint set and the secret unset.
C10_Witness ==
    /\ Returned
    /\ dispatches = 1
    /\ Len(stages) = 2
    /\ wh_cfg.url = "https://hook"
    /\ wh_cfg.secret = ""

\* C5: events-stage per-repository isolation.  When nothing but ingests
\* fail (no storage or client-factory failure), every tracked project's
\* ingest is attempted in order, the rows of every project whose ingest
\* returned are committed and none of a raising project's, failed_projects
\* counts the raising projects and the stage returns success=true; and no
\* step of the stage ever removes a committed row.
UnitsOfKind(S) == {i \in DOMAIN unit_log : unit_log[i].kind \in S}
C5_EventsPerRepositoryIsolation ==
    /\ []((pc = "stage_returned" /\ faults = {} /\ projects # <<>>) =>
            /\ Len(unit_log) = Len(projects)
            /\ \A i \in DOMAIN projects : unit_log[i].project = projects[i].id
            /\ db.committed =
                 {[table |-> "project_events", project_id |-> projects[i].id] :
                    i \in UnitsOfKind({"ok"})}
            /\ stage_result.success = TRUE
            /\ stage_result.stats.failed_projects =
                 Cardinality(UnitsOfKind({"raise_partial", "raise_clean"})))
    /\ [][db.committed \subseteq db'.committed]_vars

\* The first project's events were committed, the second project's ingest
\* raised after writing part of its rows, and the stage returned.
C5_Witness ==
    /\ pc = "stage_returned"
    /\ faults = {}
    /\ Len(unit_log) = 2
    /\ unit_log[1].kind = "ok"
    /\ unit_log[2].kind = "raise_partial"
    /\ Cardinality(db.committed) = 1
    /\ stage_result.stats.failed_projects = 1

\* C6: metrics-stage per-unit failure boundary.  With no storage failure, a
\* failure confined to single repositories (a FAILED fetch, a fetch that
\* raises, a full_name that cannot be split) is counted in stats.failed,
\* every other repository's metrics are written, and the stage returns
\* success=true.
UnitFails(p) ==
    p.full_name = "noslash" \/ upstream[p.id].state \in {"FAILED", "raise"}
C6_MetricsUnitFailureBoundary ==
    (pc = "stage_returned" /\ faults = {} /\ projects # <<>>) =>
      /\ stage_result.success = TRUE
      /\ stage_result.stats.failed =
           Cardinality({i \in DOMAIN projects : UnitFails(projects[i])})
      /\ \A i \in DOMAIN projects :
           ~UnitFails(projects[i]) =>
             \E r \in db.committed : r.project_id = projects[i].id

\* C7: idempotent re-run.  The committed project_metrics_daily rows never
\* hold two rows for one (project, date) key and no project_star_history row
\* is written; when a daily run succeeded and the next one meets no storage
\* failure, the next one succeeds too, inserts no row (it updates the
\* existing ones) and leaves the committed rows equal to those after the
\* run before.
C7_IdempotentRerun ==
    /\ \A r1, r2 \in db.committed :
         ( /\ r1.table = "project_metrics_daily"
           /\ r2.table = "project_metrics_daily"
           /\ r1.project_id = r2.project_id
           /\ r1.date = r2.date ) => r1 = r2
    /\ \A r \in db.committed : r.table # "project_star_history"
    /\ ( /\ mode = "daily"
         /\ pc \in {"stage_returned", "stage_raised"}
         /\ run_no >= 2
         /\ faults = {}
         /\ projects # <<>>
         /\ snapshots[run_no - 1].success )
       => /\ pc = "stage_returned"
          /\ stage_result.success = TRUE
          /\ stage_result.stats.created = 0
          /\ stage_result.stats.updated = Len(payloads)
          /\ snapshots[run_no].committed = snapshots[run_no - 1].committed

\* Two daily runs in a row succeeded on two tracked projects: the second
\* updated both rows and created none.
C7_Witness ==
    /\ mode = "daily"
    /\ pc = "stage_returned"
    /\ run_no = 2
    /\ snapshots[1].success
    /\ snapshots[2].success
    /\ Cardinality(db.committed) = 2
    /\ stage_result.stats.updated = 2
    /\ stage_result.stats.created = 0

\* ------------------------------------------------------------------ C11
\* A dispatch that signs has happened: the settings configure it.
Signing ==
    /\ pc \in {"post", "exhausted", "dispatched", "done"}
    /\ webhook_configured(wh_cfg)

\* run_stats dicts that agree with `rs` on mode and started_at
SameJobInputs(rs) ==
    {[rs EXCEPT !.completed_at = t, !.success = b] :
       t \in Times, b \in BOOLEAN}

\* The part of the statement that does not mention a second secret: every
\* POST of the dispatch carries the same body, rebuilding it from the same
\* run_stats and secret gives that body again whatever the clock reads, and
\* job_id is the same for every run_stats with this mode and started_at.
SignedPayloadReproducible ==
    Signing =>
      /\ \A i \in DOMAIN wh.sent : wh.sent[i] = wh.signed_payload
      /\ \A now \in Times :
           signed_completion_payload(run_stats, wh_cfg.secret, now)
             = wh.signed_payload
      /\ DOMAIN wh.signed_payload
           = {"job_id", "scope", "completed_at", "signature"}
      /\ \A rs \in SameJobInputs(run_stats), now \in Times :
           build_completion_webhook_payload(rs, now).job_id
             = wh.signed_payload.job_id

\* C11 as stated: the signed payload is reproducible and, for the same
\* run_stats, any two different configured secrets give different
\* signatures.
C11_SignatureDeterminism_AsStated ==
    /\ SignedPayloadReproducible
    /\ Signing =>
         \A other \in WebhookSecrets, now \in Times :
           (Strip(other) # "" /\ other # wh_cfg.secret) =>
             signed_completion_payload(run_stats, other, now).signature
               # wh.signed_payload.signature

\* C11 (amended): the signed payload is reproducible and, for the same
\* run_stats, two configured secrets that still differ once surrounding
\* whitespace is stripped give different signatures and otherwise equal
\* payload fields.
C11_SignatureDeterminism ==
    /\ SignedPayloadReproducible
    /\ Signing =>
         \A other \in WebhookSecrets, now \in Times :
           LET body == signed_completion_payload(run_stats, other, now) IN
           /\ (Strip(other) # "" /\ Strip(other) # Strip(wh_cfg.secret))
                => body.signature # wh.signed_payload.signature
           /\ body.job_id = wh.signed_payload.job_id
           /\ body.scope = wh.signed_payload.scope
           /\ body.completed_at = wh.signed_payload.completed_at

\* A dispatch signed with a whitespace-padded secret was retried once and
\* delivered, and the run returned.
C11_Witness ==
    /\ pc = "done"
    /\ wh_cfg.secret = " s3cret"
    /\ Len(wh.sent) = 2
    /\ wh.result.sent = TRUE

\* ------------------------------------------------------------ API client
ClientReturned == pc = "client" /\ client.at = "returned"
LastResponse == client.log[Len(client.log)]
ClientFailure(resp) == resp.code \notin {200, 304}

C13_ClientTerminalFailure ==
    /\ (pc = "client") => client.at \in {"idle", "request", "returned"}
    /\ (ClientReturned /\ ClientFailure(LastResponse)) =>
         /\ Len(client.log) = client.max_retries
         /\ \A i \in DOMAIN client.log : ClientFailure(client.log[i])
         /\ is_failed(client.result)
         /\ client.result.status_code = LastResponse.code
         /\ client.result.error # ""
         /\ client.result.error # SecretText
         /\ client.result.data = "none"
    /\ (ClientReturned /\ is_failed(client.result)) =>
         ClientFailure(LastResponse)

\* Two requests allowed, a 500 then a 429: FAILED carrying 429.
C13_Witness ==
    /\ ClientReturned
    /\ client.max_retries = 2
    /\ client.log[1].code = 500
    /\ LastResponse.code = 429
    /\ is_failed(client.result)
    /\ client.result.status_code = 429

\* C14: conditional fetch.  A 304 ends the fetch with UNCHANGED, no payload
\* and the etag of the response headers, also when the request carried a
\* different one.
C14_ConditionalFetch ==
    (ClientReturned /\ LastResponse.code = 304) =>
      /\ is_unchanged(client.result)
      /\ client.result.data = "none"
      /\ client.result.etag = LastResponse.etag

\* The request carried e1 and the 304 answered e2.
C14_Witness ==
    /\ ClientReturned
    /\ client.etag = "e1"
    /\ LastResponse.code = 304
    /\ LastResponse.etag = "e2"
    /\ client.result.etag = "e2"

\* How many of the four tag properties hold of a result.
ActiveTags(r) ==
    Cardinality({t \in {"ok", "unchanged", "empty", "failed"} :
                   CASE t = "ok" -> is_ok(r)
                     [] t = "unchanged" -> is_unchanged(r)
                     [] t = "empty" -> is_empty(r)
                     [] OTHER -> is_failed(r)})

Classified == pc = "classify" /\ event.result # None
Score(t) == event.input[t].title * 2 + event.input[t].body
              + event.input[t].section * 2
\* The categories scoring at least 2, best first (higher score, then
\* security, breaking, feature, fix, perf).
Better(a, b) ==
    Score(a) > Score(b)
      \/ (Score(a) = Score(b) /\ PRIORITY(a) < PRIORITY(b))
RankOf(t) == 1 + Cardinality({u \in ScoredSet : Better(u, t)})
Strong == {t \in ScoredSet : Score(t) >= 2}
StrongRank(t) == 1 + Cardinality({u \in Strong : Better(u, t)})
Top2 == {t \in Strong : StrongRank(t) <= 2}

\* C16: classifier security guarantee.  When security scores above zero,
\* event_types contains security and is_security is true; when security is
\* not among the two best categories scoring at least 2, it comes first and
\* is followed by the best of those (the second best, if any, is dropped).
C16_ClassifierSecurityGuarantee ==
    (Classified /\ Score("security") > 0) =>
      /\ "security" \in Range(event.result.event_types)
      /\ event.result.is_security = TRUE
      /\ ("security" \notin Top2) =>
           /\ event.result.event_types[1] = "security"
           /\ Len(event.result.event_types) = Min(2, 1 + Cardinality(Top2))
           /\ \A t \in Top2 :
                IF StrongRank(t) = 1
                THEN event.result.event_types[2] = t
                ELSE t \notin Range(event.result.event_types)

\* Security scored 1 beside two categories scoring more.
C16_Witness ==
    /\ Classified
    /\ Score("security") = 1
    /\ Cardinality(Top2) = 2
    /\ event.result.event_types[1] = "security"
    /\ Len(event.result.event_types) = 2

\* C17: classifier fallback.  When no category scores 2 or more the result
\* is one category, the best-ranked one if it scores above zero and misc
\* otherwise; event_types is [misc] exactly when all five scores are zero,
\* and misc never comes with another category.
C17_ClassifierFallback ==
    Classified =>
      /\ (Strong = {}) =>
           /\ Len(event.result.event_types) = 1
           /\ \A t \in ScoredSet :
                (RankOf(t) = 1) =>
                  event.result.event_types[1]
                    = IF Score(t) > 0 THEN t ELSE MISC
      /\ (event.result.event_types = <<MISC>>)
           <=> (\A t \in ScoredSet : Score(t) = 0)
      /\ (MISC \in Range(event.result.event_types))
           => Len(event.result.event_types) = 1

\* Only fix scored, and only 1.
C17_Witness ==
    /\ Classified
    /\ Score("fix") = 1
    /\ \A t \in ScoredSet \ {"fix"} : Score(t) = 0
    /\ event.result.event_types = <<"fix">>

\* ---------------------------------------------------- star-history rollup
Rolled == pc = "rollup" /\ rollup.rolled # None
InputSpan == Cardinality(DOMAIN rollup.points)
NonDecreasing(f) ==
    \A d1, d2 \in DOMAIN f : d1 < d2 => f[d1] <= f[d2]
OlderMonths ==
    {MonthOf[d] : d \in older_points(rollup.points, rollup.today,
                                     rollup.recent_days)}

\* C18 as stated: for a daily, never decreasing series spanning more than
\* 120 days the rolled series has at most recent_days + 4 points and never
\* decreases as the date increases.
C18_RollupBound_AsStated ==
    (Rolled /\ InputSpan > 120 /\ NonDecreasing(rollup.points)) =>
      /\ Cardinality(DOMAIN rollup.rolled) <= rollup.recent_days + 4
      /\ NonDecreasing(rollup.rolled)

\* C18 (amended): for a daily, never decreasing series spanning more than
\* 120 days the rolled series has at most recent_days + 1 points plus one
\* per calendar month older than the window, every rolled point is a point
\* of the input, and the rolled series never decreases as the date
\* increases.
C18_RollupBound ==
    (Rolled /\ InputSpan > 120 /\ NonDecreasing(rollup.points)) =>
      /\ Cardinality(DOMAIN rollup.rolled)
           <= rollup.recent_days + 1 + Cardinality(OlderMonths)
      /\ \A d \in DOMAIN rollup.rolled :
           d \in DOMAIN rollup.points /\ rollup.rolled[d] = rollup.points[d]
      /\ NonDecreasing(rollup.rolled)

\* A growing series of 365 days was rolled with recent_days = 90 into the
\* 91 days of the window and more than four monthly points.
C18_Witness ==
    /\ Rolled
    /\ InputSpan = 365
    /\ rollup.recent_days = 90
    /\ rollup.points[rollup.today] > rollup.points[rollup.today - 1]
    /\ Cardinality(DOMAIN rollup.rolled) > 90 + 1 + 4

\* ---------------------------------------------------- candidate selection
Selected == pc = "select" /\ selection.result # None
BaselineIds ==
    {[github |-> selection.baseline_payloads[i].id] :
       i \in DOMAIN selection.baseline_payloads}
SelectedWithId(e) ==
    {i \in DOMAIN selection.result.selected :
       selection.result.selected[i].external_id = e}

\* C19: the baseline is inviolable.  Every baseline payload's candidate is
\* selected with its own flags, whatever its relevance, archived and
\* disabled flags and whatever target_count is; every other selected
\* candidate comes from a discovered payload that is neither archived nor
\* disabled and whose external id is not a baseline one; no external id is
\* selected twice.
C19_BaselineInviolable ==
    Selected =>
      /\ \A i \in DOMAIN selection.baseline_payloads :
           LET p == selection.baseline_payloads[i] IN
           \E k \in DOMAIN selection.result.selected :
             LET c == selection.result.selected[k] IN
             /\ c.external_id = [github |-> p.id]
             /\ c.archived = p.archived
             /\ c.disabled = p.disabled
             /\ c.relevant = p.relevant
      /\ \A k \in DOMAIN selection.result.selected :
           LET c == selection.result.selected[k] IN
           /\ Cardinality(SelectedWithId(c.external_id)) = 1
           /\ (c.external_id \notin BaselineIds) =>
                /\ ~c.archived
                /\ ~c.disabled
                /\ \E j \in DOMAIN selection.auto_payloads :
                     [github |-> selection.auto_payloads[j].id]
                       = c.external_id

\* Two baseline entries, one archived and irrelevant, with target_count 1:
\* both are selected; the discovered payloads repeat a baseline id.
C19_Witness ==
    /\ Selected
    /\ Len(selection.baseline_payloads) = 2
    /\ selection.baseline_payloads[1].archived
    /\ ~selection.baseline_payloads[1].relevant
    /\ selection.target_count = 1
    /\ Len(selection.auto_payloads) >= 1
    /\ Len(selection.result.selected) = 2

\* --------------------------------------------------------- backfill cap
MetricsReturned == pc = "stage_returned" /\ stage_result # None
CapEntries == Get(Get(stage_result, "stats", <<>>), "cap_reasons", <<>>)
DatesProcessed == Get(Get(stage_result, "stats", <<>>), "dates", <<>>)

\* What the result must say about the cap, for its mode and request.
CapIsRecorded ==
    /\ (mode = "backfill" /\ requested_metrics_days > BackfillCapDays) =>
         /\ Len(CapEntries) = 1
         /\ DOMAIN CapEntries[1] = {"scope", "reason"}
         /\ CapEntries[1].scope = "metrics"
         /\ CapEntries[1].reason = BackfillCapDays
    /\ (mode = "backfill" /\ requested_metrics_days <= BackfillCapDays) =>
         CapEntries = <<>>
    /\ (mode = "daily") =>
         /\ CapEntries = <<>>
         /\ DatesProcessed = <<0>>   \* day offset 0: today

\* C20 as stated: every metrics stage result records the cap when a
\* backfill request exceeds the maximum and none otherwise; a daily run
\* processes exactly today.
C20_BackfillCapNeverSilent_AsStated == MetricsReturned => CapIsRecorded

\* C20 (amended): the same, for every metrics stage result of a run over at
\* least one tracked project, successful or failed; with no tracked project
\* the stage returns before dates and cap are worked out.
C20_BackfillCapNeverSilent ==
    /\ (MetricsReturned /\ projects # <<>>) =>
         /\ CapIsRecorded
         /\ mode = "backfill" =>
              Len(DatesProcessed)
                = Min(requested_metrics_days, BackfillCapDays)
    /\ (MetricsReturned /\ projects = <<>>) =>
         /\ CapEntries = <<>>
         /\ DatesProcessed = <<>>

\* A backfill over tracked projects asked for more than the cap and
\* succeeded.
C20_Witness ==
    /\ MetricsReturned
    /\ mode = "backfill"
    /\ projects # <<>>
    /\ requested_metrics_days > BackfillCapDays
    /\ stage_result.success = TRUE
    /\ Len(CapEntries) = 1

\* ------------------------------------------------------------ redaction
\* The text holds the secret value ghp_xxx.
HasSecret(s) == s = SecretText
ReasonTexts(st) ==
    LET fr == Get(st, "failure_reasons", <<>>) IN
    UNION {Range(fr[i].reasons) : i \in DOMAIN fr}
RunStatsTexts ==
    {run_stats.errors[i].error : i \in DOMAIN run_stats.errors}
      \cup {Get(run_stats.stages[n], "error", "") : n \in DOMAIN run_stats.stages}
      \cup UNION {ReasonTexts(Get(run_stats.stages[n], "stats", <<>>)) :
                    n \in DOMAIN run_stats.stages}
      \cup {Get(Get(run_stats, "webhook", <<>>), "error", "")}

\* C21: no string of the returned RunStats (the errors list, each stage's
\* error, the failure reasons in each stage's stats, the webhook error)
\* holds the secret value.
C21_ReturnedErrorsAreRedacted ==
    Returned => \A t \in RunStatsTexts : ~HasSecret(t)

\* The same for the result of the events stage runner alone: no failure
\* reason of its stats holds the secret value.
EventsReasonsAreRedacted ==
    (pc = "stage_returned" /\ stage_result # None) =>
        \A t \in ReasonTexts(Get(stage_result, "stats", <<>>)) : ~HasSecret(t)

\* -------------------------------------------------------- unknown stages
UnknownRequested == {i \in DOMAIN stages : ~resolve_stage_runner(stages[i])}
ErrorsOf(stage_name) ==
    SelectSeq(run_stats.errors, LAMBDA e : e.stage = stage_name)

\* C22: in every returned RunStats, each requested name without a runner
\* has a stage entry with success=false and the unknown-stage error, has
\* one entry of the errors list per occurrence in the request, the run's
\* success is false, and every requested name with a runner had its runner
\* awaited, in the requested order.
C22_UnknownStageRejected ==
    Returned =>
      \A i \in UnknownRequested :
        /\ stages[i] \in DOMAIN run_stats.stages
        /\ run_stats.stages[stages[i]] = FailedEntry("Unknown stage")
        /\ Len(ErrorsOf(stages[i]))
             = Cardinality({j \in DOMAIN stages : stages[j] = stages[i]})
        /\ \A k \in DOMAIN ErrorsOf(stages[i]) :
             ErrorsOf(stages[i])[k].error = "unknown stage"
        /\ run_stats.success = FALSE
        /\ call_order = SelectSeq(stages, resolve_stage_runner)

\* A run returned whose first requested name is unknown and whose second
\* stage was awaited and succeeded.
C22_Witness ==
    /\ Returned
    /\ Len(stages) = 2
    /\ 1 \in UnknownRequested
    /\ call_order = <<STAGE_EVENTS>>
    /\ ~outcomes[2].failed
    /\ run_stats.success = FALSE

\* ---------------------------------------------------------- checkpoints
CheckpointKeys == {"next_page", "reached_cap", "complete"}
ProcessedIds == {unit_log[i].project : i \in DOMAIN unit_log}

\* C23: the result of a backfill stage over tracked projects carries a
\* checkpoint {next_page, reached_cap, complete} for each project it
\* processed, and a project whose supplied checkpoint is complete is not
\* processed again.
C23_BackfillReturnsCheckpoints ==
    (pc = "stage_returned" /\ stage_result # None /\ mode = "backfill"
       /\ projects # <<>>) =>
      /\ "checkpoints" \in DOMAIN stage_result
      /\ \A id \in ProcessedIds :
           /\ id \in DOMAIN stage_result.checkpoints
           /\ DOMAIN stage_result.checkpoints[id] = CheckpointKeys
      /\ \A id \in DOMAIN checkpoints :
           checkpoints[id].complete => id \notin ProcessedIds
\* --------------------------------------------------------- overview stage
\* The step processes a project whose stored raw_hash is the hash of the
\* source collect returns for it.
OverviewUnchangedStep ==
    /\ pc = "overview"
    /\ overview.idx <= Len(overview.projects)
    /\ overview'.idx = overview.idx + 1
    /\ overview'.last.collect = "ok"
    /\ LET p == overview.projects[overview.idx] IN
       /\ overview.store[p] # None
       /\ overview.store[p].raw_hash = RawHash(overview.sources[p])
OverviewBothRunsReturned ==
    pc = "overview" /\ Len(overview.returned) = OverviewRuns

\* C24: a project whose stored raw_hash equals the hash of the freshly
\* collected source is counted as skipped, the summarizer is not invoked
\* and the repository is left as it was; so after two runs over unchanged
\* sources, the first without a failure, the summarizer was invoked once per
\* project of the list and the second run reports updated=0.
C24_OverviewSkipsUnchanged ==
    /\ [][OverviewUnchangedStep =>
            /\ overview'.stats.skipped = overview.stats.skipped + 1
            /\ overview'.stats.updated = overview.stats.updated
            /\ overview'.stats.failed = overview.stats.failed
            /\ overview'.calls = overview.calls
            /\ overview'.store = overview.store]_vars
    /\ [](OverviewBothRunsReturned /\ ~overview.changed
            /\ overview.returned[1].failed = 0 =>
              /\ \A p \in Range(overview.projects) : overview.calls[p] = 1
              /\ overview.returned[2].updated = 0)

\* Both runs returned over unchanged sources: the first updated two
\* projects, the second skipped both.
C24_Witness ==
    /\ OverviewBothRunsReturned
    /\ ~overview.changed
    /\ overview.returned[1].updated = 2
    /\ overview.returned[2].skipped = 2
    /\ overview.returned[2].updated = 0
    /\ \A p \in Range(overview.projects) : overview.calls[p] = 1
\* ---------------------------------------------------- overview summarizer
LlmCalls == Len(summarizer.log)
SchemaValid(resp) == validate_response(resp) = "valid"
SummarizeReturned == pc = "summarize" /\ summarizer.at = "returned"

\* C25: summarize makes at most max_attempts LLM calls and none after a
\* schema-valid response; when it returns it has slept exactly calls-1
\* times; it returns the first valid response, validated, or, after
\* max_attempts invalid responses, the placeholder summary with empty
\* highlights.
C25_SummarizerRetryProtocol ==
    pc = "summarize" =>
      /\ LlmCalls <= summarizer.max_attempts
      /\ \A i \in 1 .. (LlmCalls - 1) : ~SchemaValid(summarizer.log[i])
      /\ summarizer.at = "call" =>
           summarizer.sleeps = LlmCalls /\ summarizer.attempt = LlmCalls + 1
      /\ SummarizeReturned =>
           /\ LlmCalls >= 1
           /\ summarizer.sleeps = LlmCalls - 1
           /\ IF SchemaValid(summarizer.log[LlmCalls])
              THEN summarizer.result
                     = validated_summary(summarizer.log[LlmCalls])
              ELSE /\ LlmCalls = summarizer.max_attempts
                   /\ summarizer.result.summary = PLACEHOLDER_TEXT
                   /\ summarizer.result.highlights = <<>>

\* Three invalid responses used up max_attempts = 3: the placeholder came
\* back after two sleeps.
C25_Witness ==
    /\ SummarizeReturned
    /\ summarizer.max_attempts = 3
    /\ LlmCalls = 3
    /\ summarizer.sleeps = 2
    /\ summarizer.result = placeholder_summary
\* --------------------------------------------------------- wiki contracts
HiddenComputed == pc = "wiki" /\ wiki.called
Blank(section_type) ==
    wiki.snapshot[section_type].summary \in {"", " "}
Meta == wiki.snapshot.readiness_metadata
\* the readiness gate of each Core-6 section fails
GateFails(section_type) ==
    CASE section_type = "what" -> Blank("what")
      [] section_type = "how" -> Blank("how")
      [] section_type = "architecture" ->
           ~Meta.has_sufficient_readme \/ Blank("architecture")
      [] section_type = "activity" ->
           ~Meta.has_12mo_history \/ Meta.event_count_12mo < 5
      [] section_type = "releases" ->
           ~Meta.has_release_coverage
             \/ Meta.release_count + Meta.tag_count < 3
      [] section_type = "chat" ->
           ~Meta.has_sufficient_readme \/ ~Meta.has_12mo_history
PositionOf(section_type) ==
    CHOOSE i \in DOMAIN SectionTypes : SectionTypes[i] = section_type

\* C26: the hidden sections are exactly the Core-6 sections whose gate
\* fails, each once, in the order what, how, architecture, activity,
\* releases, chat; nothing is hidden when every gate passes; what and how
\* are not hidden while their summary is non-blank, whatever the metadata.
C26_WikiHiddenSections ==
    HiddenComputed =>
      /\ Range(wiki.hidden) = {t \in Range(SectionTypes) : GateFails(t)}
      /\ \A i, j \in DOMAIN wiki.hidden :
           i < j => PositionOf(wiki.hidden[i]) < PositionOf(wiki.hidden[j])
      /\ (\A t \in Range(SectionTypes) : ~GateFails(t)) => wiki.hidden = <<>>
      /\ \A t \in {"what", "how"} :
           ~Blank(t) => t \notin Range(wiki.hidden)

\* What and how are shown although the readme is insufficient and the
\* history is missing: architecture, activity, releases and chat are hidden.
C26_Witness ==
    /\ HiddenComputed
    /\ ~Meta.has_sufficient_readme
    /\ ~Meta.has_12mo_history
    /\ ~Meta.has_release_coverage
    /\ wiki.hidden = <<"architecture", "activity", "releases", "chat">>
\* ------------------------------------------------------ incremental commit
StageEnded == pc \in {"stage_returned", "stage_raised"}
CommittedBefore ==
    IF Len(snapshots) <= 1 THEN {}
    ELSE snapshots[Len(snapshots) - 1].committed

\* C27: when an invocation of the metrics stage ends, failed or not, and
\* no commit of it raised, the rows it created for the snapshot dates it
\* had finished are committed: the store holds at least stats.created rows
\* more than before the invocation.
C27_StagesCommitIncrementally ==
    (StageEnded /\ stats # None /\ Len(snapshots) = run_no
       /\ "commit_raises" \notin faults) =>
      Cardinality(MetricRows(db.committed))
        >= Cardinality(MetricRows(CommittedBefore)) + stats.created
\* ------------------------------------------------------------ schema repair
\* C28: schema repair is over before any stage runner is awaited, a failed
\* repair (statement, commit, rollback or session creation) is logged and
\* never ends the run, and every requested stage with a runner is awaited.
C28_SchemaRepairCannotAbort ==
    /\ call_order # <<>> => schema \in {"ok", "logged"}
    /\ schema # "raised"
    /\ Returned => call_order = SelectSeq(stages, resolve_stage_runner)
\* ---------------------------------------------------- repository discovery
\* C29: within a keyword chunk the pages are requested in increasing order,
\* none beyond the ceiling, and none after a page of the chunk came back
\* EMPTY or FAILED.
C29_DiscoveryStopsEarly ==
    pc = "discover" =>
      \A i, j \in DOMAIN discovery.requests :
        LET a == discovery.requests[i]
            b == discovery.requests[j] IN
        /\ a.page <= search_pages
        /\ (i < j /\ a.chunk = b.chunk) =>
             /\ a.page < b.page
             /\ a.state \notin {"EMPTY", "FAILED"}
\* ------------------------------------------------- per-repository fetches
\* C30: while the client waits out a delay for one repository's fetch, the
\* fetch of any other repository of the stage that has not started yet can
\* start.
C30_WaitsDoNotStallSiblings ==
    pc = "fetch" =>
      \A i, j \in DOMAIN fetches.projects :
        (fetches.state[i] = "waiting" /\ fetches.state[j] = "pending") =>
          ENABLED fetch_await(j)
\* ------------------------------------------------------ classifier ranking
\* C31: classifier ranking.  Categories are ordered by descending score,
\* ties going to the earlier of security, breaking, feature, fix, perf.
\* When some category scores at least 2 and security either scores zero or
\* is one of the two best of those, event_types is exactly the best two (or
\* the only one) of the categories scoring at least 2, in that order.
C31_ClassifierRanking ==
    (/\ Classified
     /\ Strong # {}
     /\ (Score("security") = 0 \/ "security" \in Top2)) =>
      /\ Len(event.result.event_types) = Cardinality(Top2)
      /\ \A t \in Top2 : event.result.event_types[StrongRank(t)] = t
      /\ \A i, j \in DOMAIN event.result.event_types :
           i < j => Better(event.result.event_types[i],
                           event.result.event_types[j])

\* Feature, fix and perf tie at 2 and nothing else scores: feature and fix
\* are reported, in that order.
C31_Witness ==
    /\ Classified
    /\ Score("feature") = 2
    /\ Score("fix") = 2
    /\ Score("perf") = 2
    /\ Score("security") = 0
    /\ Score("breaking") = 0
    /\ event.result.event_types = <<"feature", "fix">>

\* ------------------------------------------------- classifier impact score
Selected1(t) == IF t \in Range(event.result.event_types) THEN 1 ELSE 0

\* C32: classifier impact score.  impact_score is 1, plus 4 when security
\* is selected, 3 when breaking is, 2 when feature is and 1 when fix or perf
\* is, capped at 10; it lies in 1..10; event_types holds one or two distinct
\* tags; is_security and is_breaking say whether security and breaking are
\* among them.
C32_ClassifierImpactScore ==
    Classified =>
      /\ event.result.impact_score
           = Min(10, 1 + 4 * Selected1("security")
                       + 3 * Selected1("breaking")
                       + 2 * Selected1("feature")
                       + (IF Selected1("fix") + Selected1("perf") > 0
                          THEN 1 ELSE 0))
      /\ event.result.impact_score \in 1 .. 10
      /\ Len(event.result.event_types) \in 1 .. 2
      /\ Cardinality(Range(event.result.event_types))
           = Len(event.result.event_types)
      /\ Range(event.result.event_types) \subseteq ScoredSet \cup {MISC}
      /\ event.result.is_security
           = ("security" \in Range(event.result.event_types))
      /\ event.result.is_breaking
           = ("breaking" \in Range(event.result.event_types))

\* Fix and perf are both selected and add 1 together.
C32_Witness ==
    /\ Classified
    /\ Range(event.result.event_types) = {"fix", "perf"}
    /\ event.result.impact_score = 2
    /\ ~event.result.is_security
    /\ ~event.result.is_breaking

\* --------------------------------------------------------- rollup algorithm
InWindow(d) == d >= rollup.today - rollup.recent_days /\ d <= rollup.today
LatestOfMonth(d) ==
    \A e \in DOMAIN rollup.points :
      (~InWindow(e) /\ MonthOf[e] = MonthOf[d]) => e <= d
RollupKeepsWindowAndMonths ==
    /\ \A d \in DOMAIN rollup.points :
         IF InWindow(d)
         THEN d \in DOMAIN rollup.rolled
         ELSE (d \in DOMAIN rollup.rolled) <=> LatestOfMonth(d)
    /\ \A d \in DOMAIN rollup.rolled :
         d \in DOMAIN rollup.points /\ rollup.rolled[d] = rollup.points[d]
    /\ \A m \in OlderMonths :
         Cardinality({d \in DOMAIN rollup.rolled :
                        ~InWindow(d) /\ MonthOf[d] = m}) = 1

\* C33 as stated: every input point of [today - recent_days, today] is in
\* the output unchanged, one per day; the older input points are reduced to
\* the latest point of each calendar month; the output has at most
\* recent_days points plus one per month of older history.
C33_RollupAlgorithm_AsStated ==
    Rolled =>
      /\ RollupKeepsWindowAndMonths
      /\ Cardinality(DOMAIN rollup.rolled)
           <= rollup.recent_days + Cardinality(OlderMonths)

\* C33 (amended): every input point of [today - recent_days, today] is in
\* the output unchanged, one per day; the older input points are reduced to
\* the latest point of each calendar month; the output has at most
\* recent_days + 1 points (the window has both ends) plus one per month of
\* older history.
C33_RollupAlgorithm ==
    Rolled =>
      /\ RollupKeepsWindowAndMonths
      /\ Cardinality(DOMAIN rollup.rolled)
           <= rollup.recent_days + 1 + Cardinality(OlderMonths)

\* A daily series was rolled with recent_days = 30: the 31 days of the
\* window are all there, the older days were reduced to one per month for
\* at least three months, and the bound is met exactly.
C33_Witness ==
    /\ Rolled
    /\ rollup.recent_days = 30
    /\ rollup.today - 30 \in DOMAIN rollup.rolled
    /\ Cardinality({d \in DOMAIN rollup.rolled : InWindow(d)}) = 31
    /\ Cardinality(OlderMonths) >= 3
    /\ Cardinality(DOMAIN rollup.points) > Cardinality(DOMAIN rollup.rolled)
    /\ Cardinality(DOMAIN rollup.rolled) = 31 + Cardinality(OlderMonths)

\* ---------------------------------------------------------- empty discovery
ProjectsStageEnded == pc = "select" /\ selection.at \in {"returned", "raised"}
NothingFetched ==
    /\ selection.baseline_payloads = <<>>
    /\ selection.auto_payloads = <<>>
    /\ selection.result # None
EmptyRunStats == [stages |-> <<>>, errors |-> <<>>]

\* C34: empty discovery is not an error.  When the baseline refetch and the
\* discovery together yield no payloads, the projects stage neither ingests
\* nor commits; the result it returns has success true and the skipped
\* flag, and a run that records this result keeps success true and gets no
\* error for the stage.
C34_EmptyDiscoveryIsNotAnError ==
    (ProjectsStageEnded /\ NothingFetched) =>
      /\ \A i \in DOMAIN selection.session :
           selection.session[i] \in {"open", "close"}
      /\ (selection.at = "returned") =>
           /\ selection.stage_result.success = TRUE
           /\ Get(selection.stage_result, "skipped", FALSE) = TRUE
           /\ LET rs == record_stage_result(EmptyRunStats, STAGE_PROJECTS,
                                            selection.stage_result)
              IN run_success(rs) /\ rs.errors = <<>>

\* The stage returned after fetching nothing.
C34_Witness ==
    /\ ProjectsStageEnded
    /\ NothingFetched
    /\ selection.at = "returned"
    /\ selection.session = <<"open", "close">>
    /\ selection.stage_result.success

\* ------------------------------------------------------ checkpoints frame
\* C35: the checkpoints mapping the caller passed, and each per-repository
\* checkpoint in it, is not changed by any step of a stage runner, whatever
\* the mode and whatever the stage does; so it is the same after the call
\* as before.
C35_CheckpointsNeverMutated == [][checkpoints' = checkpoints]_vars

\* A backfill stage given a checkpoint for project 1 processed that project
\* and returned.
C35_Witness ==
    /\ pc = "stage_returned"
    /\ mode = "backfill"
    /\ 1 \in DOMAIN checkpoints
    /\ checkpoints[1].next_page = 2
    /\ 1 \in ProcessedIds
    /\ stage_result # None

\* ------------------------------------------------------------ retry delays
BackoffSleeps == {i \in DOMAIN wh.log : wh.log[i].kind = "sleep"}

\* C36: webhook backoff schedule.  The delay slept after failed attempt k
\* lies between 0.75 b and 1.25 b for b = min(100 ms * 2^(k-1), 2000 ms);
\* the un-jittered delay never decreases from one attempt to the next and
\* never exceeds the cap; a delay is slept only after a failed attempt that
\* is not the last one, and the next attempt follows it.
C36_WebhookBackoffSchedule ==
    pc = "backoff" =>
      /\ \A i \in BackoffSleeps :
           LET k == wh.log[i].attempt
               b == IF 100 * 2 ^ (k - 1) < 2000 THEN 100 * 2 ^ (k - 1)
                    ELSE 2000
           IN /\ k >= 1
              /\ wh.log[i].base = b
              /\ 75 * b <= wh.log[i].delay
              /\ wh.log[i].delay <= 125 * b
              /\ wh.log[i].base <= 2000
              /\ i > 1
              /\ wh.log[i - 1].kind = "post"
              /\ wh.log[i - 1].attempt = k
              /\ ~wh.log[i - 1].ok
              /\ k < max_retries(wh_cfg)
              /\ IF i = Len(wh.log)
                 THEN wh.at = "post" /\ wh.attempt = k + 1
                 ELSE /\ wh.log[i + 1].kind = "post"
                      /\ wh.log[i + 1].attempt = k + 1
      /\ \A i, j \in BackoffSleeps :
           i < j => wh.log[i].base <= wh.log[j].base
      /\ (wh.at # "post") => wh.log[Len(wh.log)].kind = "post"

\* The sixth attempt failed and the capped delay was slept with the largest
\* jitter before the seventh attempt succeeded.
C36_Witness ==
    /\ pc = "backoff"
    /\ wh.at = "returned"
    /\ \E i \in BackoffSleeps :
         /\ wh.log[i].attempt = 6
         /\ wh.log[i].base = 2000
         /\ wh.log[i].delay = 250000
    /\ \E i \in BackoffSleeps :
         /\ wh.log[i].attempt = 1
         /\ wh.log[i].delay = 7500

\* ------------------------------------------------------ success and errors
\* C37: in every returned RunStats with success true, the errors list is
\* empty and every requested stage name has a recorded entry with success
\* true; stage lists that repeat a name included.
C37_SuccessMeansNoErrors ==
    (Returned /\ run_stats.success = TRUE) =>
      /\ run_stats.errors = <<>>
      /\ \A i \in DOMAIN stages :
           /\ stages[i] \in DOMAIN run_stats.stages
           /\ Get(run_stats.stages[stages[i]], "success", FALSE) = TRUE

\* ------------------------------------------------------- events counters
\* C38: after the events stage, updated_count is the sum of the update
\* counts of the projects whose transaction was committed and
\* skipped_event_update counts the committed projects that skipped the
\* update; a project whose ingest returned but whose commit failed and was
\* rolled back is counted in failed_projects and in neither of the two.
C38_EventsCountersReflectCommits ==
    (/\ pc = "stage_returned"
     /\ stage_result # None
     /\ projects # <<>>
     /\ "rollback" \notin faults) =>
      /\ stage_result.stats.updated_count = Cardinality(UnitsOfKind({"ok"}))
      /\ stage_result.stats.skipped_event_update
           = Cardinality(UnitsOfKind({"skip"}))
      /\ stage_result.stats.failed_projects
           = Cardinality(UnitsOfKind({"raise_partial", "raise_clean",
                                      "commit_fails"}))

\* -------------------------------------------------------------- sessions
\* C39: every database session a stage runner opened is closed by the time
\* the runner returns or raises, on every path: success, no tracked
\* projects, failure while loading the projects, failure during ingest.
C39_NoLeakedSessions ==
    (pc \in {"stage_returned", "stage_raised"}) =>
      db.session \in {"none", "closed"}

\* ------------------------------------------------------------ termination
\* C40: every run terminates.  A run that has not yet returned its RunStats
\* can always take its next step, so that it goes on until it returns them.
C40_EveryRunReturns == Returned \/ ENABLED Next

====
